---------------------------- MODULE Spec2Model ----------------------------
(* A model of the ramen console emulator: package concolor (color.go) and  *)
(* package console (console.go).  Consoles form a tree; every console owns *)
(* a cell buffer, a child list sorted by priority and a lock.              *)
EXTENDS Integers, Sequences, FiniteSets, TLC

VARIABLES
    consoles,        \* console id -> its fields (type Console)
    buffer,          \* console id -> its cell grid (Console.buffer)
    pc,              \* thread -> the call it is in and the step it is at
    mtx,             \* console id -> the thread holding Console.mtx, 0 when free
    readers,         \* console id -> the threads holding Console.mtx for reading
    tickHook,        \* the root's tick hook (NoHook when nil)
    preRenderHook,   \* the root's pre-render hook
    postRenderHook,  \* the root's post-render hook
    host,            \* the host run loop (ebiten.RunGame) and what it received
    cursor,          \* the host's cursor position in pixels
    components,      \* console id -> the ids of the components mounted on it
    trace,           \* what the last frame callback visited, called and drew
    input,           \* the argument the caller is about to pass
    call             \* the last completed call: its arguments and its result

vars == <<consoles, buffer, pc, mtx, readers, tickHook, preRenderHook, postRenderHook,
          host, cursor, components, trace, input, call>>

treeVars  == <<consoles, buffer>>
concVars  == <<pc, mtx, readers>>
frameVars == <<tickHook, preRenderHook, postRenderHook, host, cursor, components, trace>>

NoCall == [op |-> "none"]
NoHook == "nil"

\* The variables a specification does not use stay at these values.
TreeIdle == consoles = <<>> /\ buffer = <<>>

ConcIdle == pc = <<>> /\ mtx = <<>> /\ readers = <<>>

\* The hook variables map a console to the hook stored in its field; a
\* console without an entry has a nil hook.
HookOf(hooks, c) == IF c \in DOMAIN hooks THEN hooks[c] ELSE NoHook

FrameIdle ==
    /\ tickHook = <<>>
    /\ preRenderHook = <<>>
    /\ postRenderHook = <<>>
    /\ host = NoCall
    /\ cursor = <<0, 0>>
    /\ components = <<>>
    /\ trace = <<>>

(***************************************************************************)
(* Bounds of the model.                                                    *)
(***************************************************************************)
MaxHexLen == 7
MaxDim == 2
MaxLen == 4
MaxSubs == 3
NumThreads == 2
ConcSubs == 2
MouseSubs == 2
CreateSubs == 2
MaxComponents == 2
LockSubs == 1
TileWidth == 2
TileHeight == 2

\* Every sequence of at most n elements of alphabet.
RECURSIVE StringsUpTo(_, _)
StringsUpTo(alphabet, n) ==
    IF n = 0 THEN {<<>>}
    ELSE LET shorter == StringsUpTo(alphabet, n - 1)
         IN  shorter \cup {Append(s, ch) : s \in shorter, ch \in alphabet}

(***************************************************************************)
(* Package concolor.                                                       *)
(***************************************************************************)
Color(r, g, b, a) == [R |-> r, G |-> g, B |-> b, A |-> a]

RGB(r, g, b) == Color(r, g, b, 255)

\* Go's errors: nil, or an error value with its message.
NilError == [isNil |-> TRUE, msg |-> ""]
ErrorsNew(m) == [isNil |-> FALSE, msg |-> m]

\* The byte value of each character the model draws its strings from.
ByteOf(ch) ==
    CASE ch = "\n" -> 10
      [] ch = "#" -> 35
      [] ch = "/" -> 47
      [] ch = "0" -> 48
      [] ch = "1" -> 49
      [] ch = "9" -> 57
      [] ch = ":" -> 58
      [] ch = "@" -> 64
      [] ch = "A" -> 65
      [] ch = "F" -> 70
      [] ch = "G" -> 71
      [] ch = "_" -> 95
      [] ch = "[" -> 91
      [] ch = "]" -> 93
      [] ch = "a" -> 97
      [] ch = "b" -> 98
      [] ch = "c" -> 99
      [] ch = "d" -> 100
      [] ch = "e" -> 101
      [] ch = "f" -> 102
      [] ch = "g" -> 103
      [] ch = "|" -> 124

\* The closure hexToByte: the digit's value and whether it set err.
hexToByte(ch) ==
    LET b == ByteOf(ch) IN
    CASE b >= ByteOf("0") /\ b <= ByteOf("9") -> [val |-> b - ByteOf("0"), bad |-> FALSE]
      [] b >= ByteOf("a") /\ b <= ByteOf("f") -> [val |-> b - ByteOf("a") + 10, bad |-> FALSE]
      [] b >= ByteOf("A") /\ b <= ByteOf("F") -> [val |-> b - ByteOf("A") + 10, bad |-> FALSE]
      [] OTHER -> [val |-> 0, bad |-> TRUE]

\* err as Hex initialises it: errors.New(""), a non-nil error.
HexInitialErr == ErrorsNew("")

\* Hex(hex): the color and the error returned, or a panic (hex[0] of "").
Hex(hex) ==
    IF Len(hex) = 0
    THEN [panic |-> TRUE, col |-> Color(0, 0, 0, 0), err |-> NilError]
    ELSE IF hex[1] # "#"
    THEN [panic |-> FALSE, col |-> Color(0, 0, 0, 255), err |-> ErrorsNew("invalid format")]
    ELSE LET d(i) == hexToByte(hex[i + 1])
             byte(n) == n % 256
         IN  CASE Len(hex) = 7 ->
                    [panic |-> FALSE,
                     col |-> Color(byte(d(1).val * 16 + d(2).val),
                                   byte(d(3).val * 16 + d(4).val),
                                   byte(d(5).val * 16 + d(6).val), 255),
                     err |-> IF \E i \in 1..6 : d(i).bad
                             THEN ErrorsNew("invalid format") ELSE HexInitialErr]
               [] Len(hex) = 4 ->
                    [panic |-> FALSE,
                     col |-> Color(byte(d(1).val * 17), byte(d(2).val * 17),
                                   byte(d(3).val * 17), 255),
                     err |-> IF \E i \in 1..3 : d(i).bad
                             THEN ErrorsNew("invalid format") ELSE HexInitialErr]
               [] OTHER ->
                    [panic |-> FALSE, col |-> Color(0, 0, 0, 255),
                     err |-> ErrorsNew("invalid format")]

\* MustHex(hex): the color of Hex, whatever the error.
MustHex(hex) ==
    LET r == Hex(hex) IN [panic |-> r.panic, col |-> r.col]

(***************************************************************************)
(* Package console: cells, transformers and the console's buffer.          *)
(***************************************************************************)
\* ramen.Cell; its zero value has char 0 and zero (transparent) colors.
Cell(ch, fg, bg) == [Char |-> ch, Foreground |-> fg, Background |-> bg]

emptyCell == Cell(0, RGB(255, 255, 255), Color(0, 0, 0, 0))

\* The nil *Console.
NilConsole == -1

\* The id of the root console.
Root == 0

Positions(width, height) == (0..(width - 1)) \X (0..(height - 1))

\* New(width, height, font, title): the console and its buffer of empty cells.
New(width, height) ==
    [con |-> [Width |-> width, Height |-> height, SubConsoles |-> <<>>,
              parent |-> NilConsole, x |-> 0, y |-> 0, priority |-> 0,
              isSubConsole |-> FALSE, mouseX |-> 0, mouseY |-> 0],
     buf |-> [p \in Positions(width, height) |-> emptyCell]]

\* The transformers of package t (t.Char, t.Foreground, t.Background, t.Cell)
\* and a custom transformer that returns an error.
Transformer(kind, ch, col, cell) == [kind |-> kind, ch |-> ch, col |-> col, cell |-> cell]
TChar(ch) == Transformer("Char", ch, Color(0, 0, 0, 0), emptyCell)
TForeground(col) == Transformer("Foreground", 0, col, emptyCell)
TBackground(col) == Transformer("Background", 0, col, emptyCell)
TCell(c) == Transformer("Cell", 0, Color(0, 0, 0, 0), c)
TFail == Transformer("Fail", 0, Color(0, 0, 0, 0), emptyCell)

\* transformer.Transform(&cell): the cell afterwards and the error.
ApplyTransformer(tr, cell) ==
    CASE tr.kind = "Char" -> [cell |-> [cell EXCEPT !.Char = tr.ch], err |-> NilError]
      [] tr.kind = "Foreground" -> [cell |-> [cell EXCEPT !.Foreground = tr.col], err |-> NilError]
      [] tr.kind = "Background" -> [cell |-> [cell EXCEPT !.Background = tr.col], err |-> NilError]
      [] tr.kind = "Cell" -> [cell |-> tr.cell, err |-> NilError]
      [] tr.kind = "Fail" -> [cell |-> cell, err |-> ErrorsNew("transformer failed")]

\* Only the first transformer of the list is applied.
ApplyFirstOnly(transformer, i, cell) ==
    IF Len(transformer) = 0 THEN [cell |-> cell, err |-> NilError]
    ELSE ApplyTransformer(transformer[1], cell)

\* for i := range transformer { err := transformer[i].Transform(&cell) ... }:
\* the transformers applied in order up to the first error.
RECURSIVE ApplyAll(_, _, _)
ApplyAll(transformer, i, cell) ==
    IF i > Len(transformer) THEN [cell |-> cell, err |-> NilError]
    ELSE LET r == ApplyTransformer(transformer[i], cell)
         IN  IF ~r.err.isNil THEN r ELSE ApplyAll(transformer, i + 1, r.cell)

checkOutOfBounds(c, x, y) ==
    IF x < 0 \/ y < 0 \/ x >= c.Width \/ y >= c.Height
    THEN ErrorsNew("position out of bounds") ELSE NilError

\* The loop body of TransformArea on the in-bounds cell at p.
AreaCell(buf, p, transformer) ==
    IF Len(transformer) = 0
    THEN [buf |-> [buf EXCEPT ![p] = emptyCell], err |-> NilError]
    ELSE LET r == ApplyAll(transformer, 1, buf[p])
         IN  [buf |-> [buf EXCEPT ![p] = r.cell], err |-> r.err]

\* The sweep of TransformArea from its k-th cell on, px outermost: the buffer
\* afterwards, the error, and the number of cells passed without an error.
RECURSIVE AreaSweep(_, _, _, _, _, _, _, _)
AreaSweep(c, buf, x, y, width, height, transformer, k) ==
    IF width <= 0 \/ height <= 0 \/ k >= width * height
    THEN [buf |-> buf, err |-> NilError, stop |-> k]
    ELSE LET px == k \div height
             py == k % height
             oob == checkOutOfBounds(c, px + x, py + y)
         IN  IF ~oob.isNil THEN [buf |-> buf, err |-> oob, stop |-> k]
             ELSE LET r == AreaCell(buf, <<px + x, py + y>>, transformer)
                  IN  IF ~r.err.isNil THEN [buf |-> r.buf, err |-> r.err, stop |-> k]
                      ELSE AreaSweep(c, r.buf, x, y, width, height, transformer, k + 1)

\* A sweep that skips the cells outside the console instead of returning
\* their error (the rectangle silently clamped).
RECURSIVE AreaSweepClamped(_, _, _, _, _, _, _, _)
AreaSweepClamped(c, buf, x, y, width, height, transformer, k) ==
    IF width <= 0 \/ height <= 0 \/ k >= width * height
    THEN [buf |-> buf, err |-> NilError, stop |-> k]
    ELSE LET px == k \div height
             py == k % height
         IN  IF ~checkOutOfBounds(c, px + x, py + y).isNil
             THEN AreaSweepClamped(c, buf, x, y, width, height, transformer, k + 1)
             ELSE LET r == AreaCell(buf, <<px + x, py + y>>, transformer)
                  IN  IF ~r.err.isNil THEN [buf |-> r.buf, err |-> r.err, stop |-> k]
                      ELSE AreaSweepClamped(c, r.buf, x, y, width, height, transformer, k + 1)

TransformAreaClamped(c, buf, x, y, width, height, transformer) ==
    AreaSweepClamped(c, buf, x, y, width, height, transformer, 0)

TransformArea(c, buf, x, y, width, height, transformer) ==
    AreaSweep(c, buf, x, y, width, height, transformer, 0)

TransformAll(c, buf, transformer) ==
    TransformArea(c, buf, 0, 0, c.Width, c.Height, transformer)

Clear(c, buf, x, y, width, height) ==
    TransformArea(c, buf, x, y, width, height, <<TCell(emptyCell)>>)

ClearAll(c, buf) == TransformAll(c, buf, <<TCell(emptyCell)>>)

\* Transform(x, y, transformer...) on one cell.
Transform(c, buf, x, y, transformer) ==
    IF Len(transformer) = 0 THEN [buf |-> buf, err |-> ErrorsNew("no transformer given")]
    ELSE IF ~checkOutOfBounds(c, x, y).isNil
    THEN [buf |-> buf, err |-> checkOutOfBounds(c, x, y)]
    ELSE LET r == ApplyAll(transformer, 1, buf[<<x, y>>])
         IN  [buf |-> [buf EXCEPT ![<<x, y>>] = r.cell], err |-> r.err]

(***************************************************************************)
(* The console tree: sub-consoles, priorities and the sorted child list.   *)
(***************************************************************************)
\* less(i, j) of sortSubConsoles on the priorities prio (console id -> int).
Less(prio, a, b) == prio[a] < prio[b]

\* An element put into a sorted list behind every element that is not
\* greater: the step of a stable insertion sort.
RECURSIVE InsertStable(_, _, _)
InsertStable(prio, sorted, e) ==
    IF sorted = <<>> THEN <<e>>
    ELSE IF Less(prio, e, sorted[Len(sorted)])
    THEN Append(InsertStable(prio, SubSeq(sorted, 1, Len(sorted) - 1), e), sorted[Len(sorted)])
    ELSE Append(sorted, e)

RECURSIVE SortFrom(_, _, _, _)
SortFrom(prio, list, i, sorted) ==
    IF i > Len(list) THEN sorted
    ELSE SortFrom(prio, list, i + 1, InsertStable(prio, sorted, list[i]))

\* sort.SliceStable(c.SubConsoles, less) with the priorities prio.
SliceStable(prio, list) == SortFrom(prio, list, 1, <<>>)

Priorities(cs) == [c \in DOMAIN cs |-> cs[c].priority]

\* The body of sortSubConsoles on console c, the priorities not changing
\* meanwhile.
sortSubConsoles(cs, c) ==
    [cs EXCEPT ![c].SubConsoles = SliceStable(Priorities(cs), cs[c].SubConsoles)]

\* The bounds test of CreateSubConsole on console c.
\* A bounds test that also rejects a sub-console touching the right or the
\* bottom edge of its parent.
SubConsoleOutOfBoundsStrict(c, x, y, width, height) ==
    x < 0 \/ y < 0 \/ x + width >= c.Width \/ y + height >= c.Height
        \/ width <= 0 \/ height <= 0

SubConsoleOutOfBounds(c, x, y, width, height) ==
    x < 0 \/ y < 0 \/ x + width > c.Width \/ y + height > c.Height
        \/ width <= 0 \/ height <= 0

\* The id New's console gets: the consoles are numbered as they are created.
NextId(cs) == Cardinality(DOMAIN cs)

\* The locked part of CreateSubConsole: the new sub-console appended to c's
\* child list.
AppendSubConsole(cs, c, x, y, width, height) ==
    LET sub == [New(width, height).con EXCEPT
                    !.parent = c, !.x = x, !.y = y, !.isSubConsole = TRUE]
        id == NextId(cs)
    IN  [k \in DOMAIN cs \cup {id} |->
            IF k = id THEN sub
            ELSE IF k = c THEN [cs[c] EXCEPT !.SubConsoles = Append(@, id)]
            ELSE cs[k]]

\* The index of con in list, 0 when it is not in it.
IndexOf(list, con) ==
    IF \E i \in 1..Len(list) : list[i] = con
    THEN CHOOSE i \in 1..Len(list) : list[i] = con /\ \A j \in 1..(i - 1) : list[j] # con
    ELSE 0

\* A removal that moves the last child to index i and keeps the length.
SwapNoShrink(list, i) == [list EXCEPT ![i] = list[Len(list)]]

\* The removal of RemoveSubConsole: the last child moves to index i and the
\* list loses its last entry.
SwapRemove(list, i) == SubSeq([list EXCEPT ![i] = list[Len(list)]], 1, Len(list) - 1)

(***************************************************************************)
(* Text layout.  A text is a sequence of one-character strings.            *)
(***************************************************************************)
IsTagHexDigit(ch) == ch \in {"0", "1", "9", "A", "F", "a", "b", "c", "d", "e", "f"}

\* The number of hex digits of text from index i on (1-based).
RECURSIVE HexRun(_, _)
HexRun(text, i) ==
    IF i <= Len(text) /\ IsTagHexDigit(text[i]) THEN 1 + HexRun(text, i + 1) ELSE 0

At(text, i) == IF i >= 1 /\ i <= Len(text) THEN text[i] ELSE ""

\* One color part "f:#RGB" or "b:#RRGGBB" at index i: its length (0 when
\* there is none), its selector and its hex string.
MatchPart(text, i) ==
    LET n == HexRun(text, i + 3) IN
    IF /\ At(text, i) \in {"f", "b"}
       /\ At(text, i + 1) = ":"
       /\ At(text, i + 2) = "#"
       /\ n \in {3, 6}
    THEN [len |-> 3 + n, sel |-> text[i], hex |-> SubSeq(text, i + 2, i + 2 + n)]
    ELSE [len |-> 0, sel |-> "", hex |-> <<>>]

\* A tag "[[f:#..]]", "[[b:#..]]" or "[[f:#..|b:#..]]" at index i: its length
\* (0 when there is none) and the foreground and background hex strings.
MatchTag(text, i) ==
    LET none == [len |-> 0, f |-> <<>>, b |-> <<>>]
        p1 == MatchPart(text, i + 2)
        j == i + 2 + p1.len
        p2 == MatchPart(text, j + 1)
        k == j + 1 + p2.len
        one(p) == [f |-> IF p.sel = "f" THEN p.hex ELSE <<>>,
                   b |-> IF p.sel = "b" THEN p.hex ELSE <<>>]
    IN  IF ~(At(text, i) = "[" /\ At(text, i + 1) = "[" /\ p1.len > 0) THEN none
        ELSE IF At(text, j) = "]" /\ At(text, j + 1) = "]"
        THEN [len |-> j + 2 - i] @@ one(p1)
        ELSE IF /\ At(text, j) = "|" /\ p1.sel = "f" /\ p2.len > 0 /\ p2.sel = "b"
                /\ At(text, k) = "]" /\ At(text, k + 1) = "]"
        THEN [len |-> k + 2 - i, f |-> p1.hex, b |-> p2.hex]
        ELSE none

\* ParseColoredText from index i on: the cleaned text and the color spans,
\* each at the (0-based) position of the cleaned text that follows its tag.
RECURSIVE ParseFrom(_, _, _, _)
ParseFrom(text, i, cleaned, colors) ==
    IF i > Len(text) THEN [cleaned |-> cleaned, colors |-> colors]
    ELSE LET m == MatchTag(text, i) IN
         IF m.len > 0
         THEN ParseFrom(text, i + m.len, cleaned,
                        Append(colors, [pos |-> Len(cleaned), f |-> m.f, b |-> m.b]))
         ELSE ParseFrom(text, i + 1, Append(cleaned, text[i]), colors)

ParseColoredText(text) == ParseFrom(text, 1, <<>>, <<>>)

\* The hex string of the last span at or before pos that sets the channel.
RECURSIVE ActiveColor(_, _, _, _)
ActiveColor(colors, n, pos, channel) ==
    IF n = 0 THEN <<>>
    ELSE IF colors[n].pos <= pos /\ colors[n][channel] # <<>> THEN colors[n][channel]
    ELSE ActiveColor(colors, n - 1, pos, channel)

\* colors.GetCurrentTransformer(i): the transformers of the colors active at
\* position i of the cleaned text.
GetCurrentTransformer(colors, i) ==
    LET f == ActiveColor(colors, Len(colors), i, "f")
        b == ActiveColor(colors, Len(colors), i, "b")
    IN  (IF f = <<>> THEN <<>> ELSE <<TForeground(MustHex(f).col)>>)
        \o (IF b = <<>> THEN <<>> ELSE <<TBackground(MustHex(b).col)>>)

\* A line break that is taken one character late.
LineBreakLate(val, width, linePos) == val = "\n" \/ (width > 0 /\ linePos > width)

\* cleaned[i] == '\n' || width > 0 && linePos >= width
LineBreak(val, width, linePos) == val = "\n" \/ (width > 0 /\ linePos >= width)

\* A return value that leaves out the last line.
PrintReturnLineIndex(line, sy) == line - sy

\* return line + 1 - sy
PrintReturn(line, sy) == line + 1 - sy

\* The loop of PrintBoundedOffset from the i-th character (from 0) of cleaned
\* on.  writes lists the calls c.Transform(linePos+x, y-sy, ...) it made.
RECURSIVE PrintLoop(_, _, _, _, _, _, _, _, _, _, _, _, _, _)
PrintLoop(c, buf, x, y, width, height, sy, cleaned, colors, transformer, i, line, linePos, writes) ==
    IF i >= Len(cleaned)
    THEN [buf |-> buf, ret |-> PrintReturn(line, sy), writes |-> writes]
    ELSE LET val == cleaned[i + 1]
             brk == LineBreak(val, width, linePos)
             y1 == IF brk THEN y + 1 ELSE y
             line1 == IF brk THEN line + 1 ELSE line
             linePos1 == IF brk THEN 0 ELSE linePos
         IN  IF brk /\ val = "\n"
             THEN PrintLoop(c, buf, x, y1, width, height, sy, cleaned, colors, transformer,
                            i + 1, line1, linePos1, writes)
             ELSE IF x + linePos1 >= c.Width \/ (height > 0 /\ line1 >= height)
             THEN PrintLoop(c, buf, x, y1, width, height, sy, cleaned, colors, transformer,
                            i + 1, line1, linePos1, writes)
             ELSE IF line1 >= sy
             THEN LET trans == transformer \o <<TChar(ByteOf(val))>>
                                   \o GetCurrentTransformer(colors, i)
                      r == Transform(c, buf, linePos1 + x, y1 - sy, trans)
                  IN  PrintLoop(c, r.buf, x, y1, width, height, sy, cleaned, colors,
                                transformer, i + 1, line1, linePos1 + 1,
                                Append(writes, [i |-> i, x |-> linePos1 + x, y |-> y1 - sy,
                                                line |-> line1, ok |-> r.err.isNil]))
             ELSE PrintLoop(c, buf, x, y1, width, height, sy, cleaned, colors, transformer,
                            i + 1, line1, linePos1 + 1, writes)

PrintBoundedOffset(c, buf, x, y, width, height, sy, text, transformer) ==
    LET parsed == ParseColoredText(text)
    IN  PrintLoop(c, buf, x, y, width, height, sy, parsed.cleaned, parsed.colors,
                  transformer, 0, 0, 0, <<>>)

PrintBounded(c, buf, x, y, width, height, text, transformer) ==
    PrintBoundedOffset(c, buf, x, y, width, height, 0, text, transformer)

\* Console.Print(x, y, text, transformer...).
PrintText(c, buf, x, y, text, transformer) ==
    PrintBounded(c, buf, x, y, 0, 0, text, transformer)

\* The loop of CalcTextHeight from the i-th character (from 0) of cleaned on.
RECURSIVE CalcLoop(_, _, _, _, _, _)
CalcLoop(width, height, cleaned, i, line, linePos) ==
    IF i >= Len(cleaned) THEN line + 1
    ELSE LET val == cleaned[i + 1]
             brk == LineBreak(val, width, linePos)
             line1 == IF brk THEN line + 1 ELSE line
             linePos1 == IF brk THEN 0 ELSE linePos
         IN  IF brk /\ val = "\n" THEN CalcLoop(width, height, cleaned, i + 1, line1, linePos1)
             ELSE IF height > 0 /\ line1 >= height
             THEN CalcLoop(width, height, cleaned, i + 1, line1, linePos1)
             ELSE CalcLoop(width, height, cleaned, i + 1, line1, linePos1 + 1)

CalcTextHeight(width, height, text) ==
    CalcLoop(width, height, ParseColoredText(text).cleaned, 0, 0, 0)

(***************************************************************************)
(* Spec: one caller creating, removing and re-prioritising the             *)
(* sub-consoles of the root, one call after the other.                     *)
(***************************************************************************)
\* The arguments the callers pass: values at and around the borders.
SubXs == {0 - 1, 0, MaxDim - 1}
SubYs == {0 - 1, 0}
SubWidths == {0, 1, MaxDim, MaxDim + 1}
SubHeights == {0, 1, MaxDim + 1}
PriorityArgs == {0, 1}

SubIds(cs) == DOMAIN cs \ {Root}

InitTree ==
    /\ consoles = (Root :> New(MaxDim, MaxDim).con)
    /\ buffer = (Root :> New(MaxDim, MaxDim).buf)
    /\ FrameIdle
    /\ input = <<>>
    /\ call = NoCall

Init == InitTree /\ ConcIdle

Returned(op, c, con, err) == [op |-> op, c |-> c, con |-> con, err |-> err]

\* c.CreateSubConsole(x, y, width, height), while the tree has at most limit
\* sub-consoles.
CreateSubConsoleOn(c, x, y, width, height, limit) ==
    IF SubConsoleOutOfBounds(consoles[c], x, y, width, height)
    THEN /\ call' = Returned("CreateSubConsole", c, NilConsole,
                             ErrorsNew("sub-console is out of bounds"))
         /\ UNCHANGED <<treeVars, concVars, frameVars>>
    ELSE /\ NextId(consoles) <= limit
         /\ consoles' = sortSubConsoles(
                            AppendSubConsole(consoles, c, x, y, width, height), c)
         /\ buffer' = buffer @@ (NextId(consoles) :> New(width, height).buf)
         /\ call' = Returned("CreateSubConsole", c, NextId(consoles), NilError)
         /\ UNCHANGED <<concVars, frameVars>>

CallCreateSubConsole ==
    \E x \in SubXs, y \in SubYs, width \in SubWidths, height \in SubHeights :
        CreateSubConsoleOn(Root, x, y, width, height, MaxSubs) /\ UNCHANGED input

\* c.RemoveSubConsole(con).
RemoveSubConsoleOn(c, con) ==
    LET i == IndexOf(consoles[c].SubConsoles, con) IN
    IF i = 0
    THEN /\ call' = Returned("RemoveSubConsole", c, con,
                             ErrorsNew("sub-console not found"))
         /\ UNCHANGED <<treeVars, concVars, frameVars, input>>
    ELSE /\ consoles' = sortSubConsoles(
                            [consoles EXCEPT ![c].SubConsoles = SwapRemove(@, i)], c)
         /\ call' = Returned("RemoveSubConsole", c, con, NilError)
         /\ UNCHANGED <<buffer, concVars, frameVars, input>>

CallRemoveSubConsole == \E con \in SubIds(consoles) : RemoveSubConsoleOn(Root, con)

CallSetPriority ==
    \E con \in DOMAIN consoles, priority \in PriorityArgs :
        IF ~consoles[con].isSubConsole
        THEN /\ call' = Returned("SetPriority", con, con,
                                 ErrorsNew("priority of the main console can't be changed"))
             /\ UNCHANGED <<treeVars, concVars, frameVars, input>>
        ELSE /\ consoles' = sortSubConsoles([consoles EXCEPT ![con].priority = priority],
                                            consoles[con].parent)
             /\ call' = Returned("SetPriority", con, con, NilError)
             /\ UNCHANGED <<buffer, concVars, frameVars, input>>

Next == CallCreateSubConsole \/ CallRemoveSubConsole \/ CallSetPriority

Spec == Init /\ [][Next]_vars

\* The child list of c is sorted by ascending priority.
SortedByPriority(cs, c) ==
    \A i, j \in 1..Len(cs[c].SubConsoles) :
        i < j => cs[cs[c].SubConsoles[i]].priority <= cs[cs[c].SubConsoles[j]].priority

\* C2: after any sequence of CreateSubConsole, RemoveSubConsole and
\* SetPriority calls, children of equal priority are in the child list in the
\* order of their creation (ids are given in creation order).
C2_TiesInCreationOrder ==
    \A i, j \in 1..Len(consoles[Root].SubConsoles) :
        LET a == consoles[Root].SubConsoles[i]
            b == consoles[Root].SubConsoles[j]
        IN  (i < j /\ consoles[a].priority = consoles[b].priority) => a < b

(***************************************************************************)
(* SpecConc: the same calls from concurrent threads.  A call is a sequence *)
(* of steps; the steps under Console.mtx exclude each other, the write of  *)
(* SetPriority to c.priority takes no lock.                                *)
(***************************************************************************)
Threads == 1..NumThreads

\* The geometries the threads ask for: one inside the root, one too wide.
ConcGeometries == {<<0, 0, 1, 1>>, <<0, 0, MaxDim + 1, 1>>}

Idle == [op |-> "idle", step |-> "idle", c |-> Root, con |-> NilConsole,
         x |-> 0, y |-> 0, width |-> 0, height |-> 0, err |-> NilError, seen |-> <<>>]

InitConc ==
    /\ InitTree
    /\ pc = [t \in Threads |-> Idle]
    /\ mtx = (Root :> 0)
    /\ readers = <<>>

\* The sub-consoles the calls in flight are still going to create.
Creating == {t \in Threads : pc[t].step = "append"}

\* CreateSubConsole up to c.mtx.Lock(): the bounds test.
BeginCreateSubConsole(t) ==
    /\ pc[t].step = "idle"
    /\ \E g \in ConcGeometries :
          LET x == g[1]  y == g[2]  width == g[3]  height == g[4] IN
          IF SubConsoleOutOfBounds(consoles[Root], x, y, width, height)
          THEN pc' = [pc EXCEPT ![t] = [Idle EXCEPT !.op = "CreateSubConsole", !.step = "return",
                                           !.err = ErrorsNew("sub-console is out of bounds")]]
          ELSE /\ NextId(consoles) + Cardinality(Creating) <= ConcSubs
               /\ pc' = [pc EXCEPT ![t] = [Idle EXCEPT !.op = "CreateSubConsole", !.step = "append",
                                              !.x = x, !.y = y, !.width = width, !.height = height]]
    /\ UNCHANGED <<treeVars, mtx, readers, frameVars, input, call>>

\* CreateSubConsole from c.mtx.Lock() to c.mtx.Unlock().
CreateAppend(t) ==
    /\ pc[t].step = "append"
    /\ mtx[pc[t].c] = 0
    /\ consoles' = AppendSubConsole(consoles, pc[t].c, pc[t].x, pc[t].y, pc[t].width, pc[t].height)
    /\ buffer' = buffer @@ (NextId(consoles) :> New(pc[t].width, pc[t].height).buf)
    /\ mtx' = mtx @@ (NextId(consoles) :> 0)
    /\ UNCHANGED readers
    /\ pc' = [pc EXCEPT ![t].step = "sort", ![t].con = NextId(consoles)]
    /\ UNCHANGED <<frameVars, input, call>>

\* RemoveSubConsole from c.mtx.Lock() to c.mtx.Unlock().
BeginRemoveSubConsole(t) ==
    /\ pc[t].step = "idle"
    /\ mtx[Root] = 0
    /\ \E con \in SubIds(consoles) :
          LET i == IndexOf(consoles[Root].SubConsoles, con) IN
          IF i = 0
          THEN /\ pc' = [pc EXCEPT ![t] = [Idle EXCEPT !.op = "RemoveSubConsole", !.step = "return",
                                              !.con = con,
                                              !.err = ErrorsNew("sub-console not found")]]
               /\ UNCHANGED consoles
          ELSE /\ consoles' = [consoles EXCEPT ![Root].SubConsoles = SwapRemove(@, i)]
               /\ pc' = [pc EXCEPT ![t] = [Idle EXCEPT !.op = "RemoveSubConsole", !.step = "sort",
                                              !.con = con]]
    /\ UNCHANGED <<buffer, mtx, readers, frameVars, input, call>>

\* SetPriority up to c.parent.sortSubConsoles(): c.priority = priority,
\* written without a lock.
BeginSetPriority(t) ==
    /\ pc[t].step = "idle"
    /\ \E con \in DOMAIN consoles, priority \in PriorityArgs :
          IF ~consoles[con].isSubConsole
          THEN /\ pc' = [pc EXCEPT ![t] = [Idle EXCEPT !.op = "SetPriority", !.step = "return",
                              !.c = con, !.con = con,
                              !.err = ErrorsNew("priority of the main console can't be changed")]]
               /\ UNCHANGED consoles
          ELSE /\ consoles' = [consoles EXCEPT ![con].priority = priority]
               /\ pc' = [pc EXCEPT ![t] = [Idle EXCEPT !.op = "SetPriority", !.step = "sort",
                                              !.c = consoles[con].parent, !.con = con]]
    /\ UNCHANGED <<buffer, mtx, readers, frameVars, input, call>>

\* sortSubConsoles: c.mtx.Lock(); the sort starts reading the priorities.
SortLock(t) ==
    /\ pc[t].step = "sort"
    /\ mtx[pc[t].c] = 0
    /\ mtx' = [mtx EXCEPT ![pc[t].c] = t]
    /\ UNCHANGED readers
    /\ pc' = [pc EXCEPT ![t].step = "sorting", ![t].seen = Priorities(consoles)]
    /\ UNCHANGED <<treeVars, frameVars, input, call>>

OrdersOf(list) ==
    {p \in [1..Len(list) -> {list[i] : i \in 1..Len(list)}] :
        \A i, j \in 1..Len(list) : i # j => p[i] # p[j]}

\* sortSubConsoles: the sort ends and c.mtx.Unlock().  A priority of a child
\* written while the sort ran was read before or after the write, comparison
\* by comparison: the sort leaves some order of the same children.
SortUnlock(t) ==
    /\ pc[t].step = "sorting"
    /\ LET c == pc[t].c
           list == consoles[c].SubConsoles
           raced == \E i \in 1..Len(list) : pc[t].seen[list[i]] # consoles[list[i]].priority
       IN  \E sorted \in (IF raced THEN OrdersOf(list)
                          ELSE {SliceStable(Priorities(consoles), list)}) :
               consoles' = [consoles EXCEPT ![c].SubConsoles = sorted]
    /\ mtx' = [mtx EXCEPT ![pc[t].c] = 0]
    /\ UNCHANGED readers
    /\ pc' = [pc EXCEPT ![t].step = "return", ![t].seen = <<>>]
    /\ UNCHANGED <<buffer, frameVars, input, call>>

\* The call returns to its caller.
Return(t) ==
    /\ pc[t].step = "return"
    /\ call' = Returned(pc[t].op, pc[t].c, pc[t].con, pc[t].err)
    /\ pc' = [pc EXCEPT ![t] = Idle]
    /\ UNCHANGED <<treeVars, mtx, readers, frameVars, input>>

NextConc ==
    \E t \in Threads :
        \/ BeginCreateSubConsole(t)
        \/ CreateAppend(t)
        \/ BeginRemoveSubConsole(t)
        \/ BeginSetPriority(t)
        \/ SortLock(t)
        \/ SortUnlock(t)
        \/ Return(t)

SpecConc == InitConc /\ [][NextConc]_vars

\* C1: for arbitrary interleavings of CreateSubConsole, RemoveSubConsole and
\* SetPriority, calls from concurrent threads included, the child list of the
\* parent is sorted by ascending priority when such a call returns.
C1_SortedWhenCallReturns ==
    [][\A t \in Threads :
          (pc[t].step = "return" /\ pc[t].err.isNil /\ pc'[t].step = "idle")
              => SortedByPriority(consoles', Root)]_vars

(***************************************************************************)
(* The frame callbacks of the host run loop: Update and Draw on the root.  *)
(***************************************************************************)
\* Go's integer division: the quotient truncated towards zero.
GoDiv(a, b) == IF a >= 0 THEN a \div b ELSE 0 - ((0 - a) \div b)

RECURSIVE propagateMousePosition(_, _, _, _)
RECURSIVE PropagateToSubConsoles(_, _, _, _, _)

\* propagateMousePosition on the children list[i..] of a console, in order.
PropagateToSubConsoles(cs, list, i, x, y) ==
    IF i > Len(list) THEN cs
    ELSE PropagateToSubConsoles(propagateMousePosition(cs, list[i], x, y), list, i + 1, x, y)

propagateMousePosition(cs, c, x, y) ==
    LET mouseX == x - cs[c].x
        mouseY == y - cs[c].y
    IN  IF mouseX >= cs[c].Width \/ mouseY >= cs[c].Height
        THEN [cs EXCEPT ![c].mouseX = 0 - 1, ![c].mouseY = 0 - 1]
        ELSE PropagateToSubConsoles([cs EXCEPT ![c].mouseX = mouseX, ![c].mouseY = mouseY],
                                    cs[c].SubConsoles, 1, mouseX, mouseY)

MousePosition(c) == <<c.mouseX, c.mouseY>>

\* The components map of console c: the ids that are mounted on it.
ComponentsOf(comps, c) == IF c \in DOMAIN comps THEN comps[c] ELSE {}

MountedIds(comps) == UNION {comps[c] : c \in DOMAIN comps}

ComponentIds == 1..MaxComponents

\* The ids of S in ascending order.
IdList(S) == SelectSeq([i \in ComponentIds |-> i], LAMBDA i : i \in S)

\* What a component does in one tick: "close" when ShouldClose() is true,
\* "stop" when its Update returns false, "keep" otherwise.
Behaviours == {"keep", "close", "stop"}

\* One entry of the trace of a frame callback.
Entry(fn, con, id, x, y, res) ==
    [fn |-> fn, con |-> con, id |-> id, x |-> x, y |-> y, res |-> res]

\* The order in which the range over c.components meets the components of c:
\* Go leaves the order of a map open, ord is the order of this call.
RangeComponents(comps, c, ord) == SelectSeq(ord, LAMBDA id : id \in ComponentsOf(comps, c))

\* Component updates that stay on console c and leave the children out.
UpdateOwnComponentsOnly(comps, cs, c, beh, ord) ==
    LET own  == RangeComponents(comps, c, ord)
        gone == {id \in ComponentsOf(comps, c) : beh[id] # "keep"}
    IN  [comps |-> IF c \in DOMAIN comps THEN [comps EXCEPT ![c] = @ \ gone] ELSE comps,
         trace |-> <<Entry("propagateComponentUpdates", c, 0, 0, 0, "")>>
                     \o [i \in 1..Len(own) |->
                           Entry("component", c, own[i], 0, 0, beh[own[i]])]]

RECURSIVE propagateComponentUpdates(_, _, _, _, _)
RECURSIVE UpdateSubConsoles(_, _, _, _, _, _, _)

\* propagateComponentUpdates on the children list[i..] of a console; acc is
\* the components and the trace so far.
UpdateSubConsoles(acc, cs, list, i, beh, ord, dummy) ==
    IF i > Len(list) THEN acc
    ELSE LET sub == propagateComponentUpdates(acc.comps, cs, list[i], beh, ord)
         IN  UpdateSubConsoles([comps |-> sub.comps, trace |-> acc.trace \o sub.trace],
                               cs, list, i + 1, beh, ord, dummy)

\* propagateComponentUpdates on console c: every component of c is asked, the
\* ones that close or whose Update returns false are deleted from the map,
\* then the children follow.  (The focus a component is given is state of the
\* component, it is not part of the model.)
propagateComponentUpdates(comps, cs, c, beh, ord) ==
    LET own  == RangeComponents(comps, c, ord)
        gone == {id \in ComponentsOf(comps, c) : beh[id] # "keep"}
        kept == IF c \in DOMAIN comps THEN [comps EXCEPT ![c] = @ \ gone] ELSE comps
        here == <<Entry("propagateComponentUpdates", c, 0, 0, 0, "")>>
                  \o [i \in 1..Len(own) |-> Entry("component", c, own[i], 0, 0, beh[own[i]])]
    IN  UpdateSubConsoles([comps |-> kept, trace |-> here], cs, cs[c].SubConsoles, 1,
                          beh, ord, 0)

\* The cells of a width x height buffer in the order of the loops
\* "for x := range c.buffer { for y := range c.buffer[x]".
CellList(width, height) ==
    [k \in 1..(width * height) |-> <<(k - 1) \div height, (k - 1) % height>>]

\* font.Font.ToSubImage gives an image for a character code the font maps;
\* the font of the model maps every code but 0.
FontHasGlyph(char) == char # 0

RECURSIVE draw(_, _, _, _, _, _, _, _)
RECURSIVE DrawSubConsoles(_, _, _, _, _, _, _, _, _)

DrawSubConsoles(cs, buf, comps, list, i, offsetX, offsetY, drawing, ord) ==
    IF i > Len(list) THEN <<>>
    ELSE draw(cs, buf, comps, list[i], offsetX, offsetY, drawing, ord)
           \o DrawSubConsoles(cs, buf, comps, list, i + 1, offsetX, offsetY, drawing, ord)

\* A draw that hands its own offset on to the children without adding the
\* position of the console.
drawWithoutOwnOffset(cs, buf, comps, c, offsetX, offsetY, drawing, ord) ==
    LET own   == SelectSeq(RangeComponents(comps, c, ord), LAMBDA id : id \in drawing)
        cells == CellList(cs[c].Width, cs[c].Height)
        px(p) == (offsetX + cs[c].x + p[1]) * TileWidth
        py(p) == (offsetY + cs[c].y + p[2]) * TileHeight
        rects == SelectSeq(cells, LAMBDA p : buf[c][p].Background.A # 0)
        imgs  == SelectSeq(cells, LAMBDA p : FontHasGlyph(buf[c][p].Char))
    IN  <<Entry("draw", c, 0, offsetX, offsetY, "")>>
          \o [i \in 1..Len(own) |-> Entry("Component.Draw", c, own[i], 0, 0, "")]
          \o [i \in 1..Len(rects) |-> Entry("DrawRect", c, 0, px(rects[i]), py(rects[i]), "")]
          \o [i \in 1..Len(imgs) |-> Entry("DrawImage", c, 0, px(imgs[i]), py(imgs[i]), "")]
          \o DrawSubConsoles(cs, buf, comps, cs[c].SubConsoles, 1,
                             offsetX, offsetY, drawing, ord)

\* Console.draw: the components that want to be drawn, a rectangle for every
\* cell with a background that is not transparent, the glyph of every cell
\* the font has one for, then the children; x and y are pixels.
draw(cs, buf, comps, c, offsetX, offsetY, drawing, ord) ==
    LET own   == SelectSeq(RangeComponents(comps, c, ord), LAMBDA id : id \in drawing)
        cells == CellList(cs[c].Width, cs[c].Height)
        px(p) == (offsetX + cs[c].x + p[1]) * TileWidth
        py(p) == (offsetY + cs[c].y + p[2]) * TileHeight
        rects == SelectSeq(cells, LAMBDA p : buf[c][p].Background.A # 0)
        imgs  == SelectSeq(cells, LAMBDA p : FontHasGlyph(buf[c][p].Char))
    IN  <<Entry("draw", c, 0, offsetX, offsetY, "")>>
          \o [i \in 1..Len(own) |-> Entry("Component.Draw", c, own[i], 0, 0, "")]
          \o [i \in 1..Len(rects) |-> Entry("DrawRect", c, 0, px(rects[i]), py(rects[i]), "")]
          \o [i \in 1..Len(imgs) |-> Entry("DrawImage", c, 0, px(imgs[i]), py(imgs[i]), "")]
          \o DrawSubConsoles(cs, buf, comps, cs[c].SubConsoles, 1,
                             offsetX + cs[c].x, offsetY + cs[c].y, drawing, ord)

\* What a hook returns when it is called: a hook is "ok" or "fail".
HookValues == {"ok", "fail"}
HookReturn(hook) == IF hook = "fail" THEN ErrorsNew("hook failed") ELSE NilError

\* Console.update: the error it returns and whether c.draw ran.
update(pre, post) ==
    IF pre # NoHook /\ ~HookReturn(pre).isNil
    THEN [err |-> HookReturn(pre), drawn |-> FALSE]
    ELSE IF post # NoHook /\ ~HookReturn(post).isNil
    THEN [err |-> HookReturn(post), drawn |-> TRUE]
    ELSE [err |-> NilError, drawn |-> TRUE]

\* The cursor positions ebiten.CursorPosition() gives, in pixels: left of and
\* above the window, in the first cells, and past the last cell.
CursorXs == {0 - 1, 0, TileWidth, MaxDim * TileWidth}
CursorYs == {0 - 1, 0, TileHeight, MaxDim * TileHeight}

\* Update on the root: the mouse position is propagated, then the tick hook
\* runs; its error is what the run loop gets.
UpdateAt(mx, my) ==
    \E beh \in [MountedIds(components) -> Behaviours],
       ord \in OrdersOf(IdList(MountedIds(components))) :
        LET err == IF HookOf(tickHook, Root) # NoHook
                   THEN HookReturn(HookOf(tickHook, Root)) ELSE NilError
            moved == propagateMousePosition(consoles, Root,
                                            GoDiv(mx, TileWidth), GoDiv(my, TileHeight))
            updated == propagateComponentUpdates(components, moved, Root, beh, ord)
        IN
        /\ cursor' = <<mx, my>>
        /\ consoles' = moved
        /\ components' = updated.comps
        /\ trace' = updated.trace
        /\ call' = Returned("Update", Root, NilConsole, err)
        /\ host' = [op |-> "Update", err |-> err]
        /\ UNCHANGED <<buffer, concVars, tickHook, preRenderHook, postRenderHook, input>>

CallUpdate == \E mx \in CursorXs, my \in CursorYs : UpdateAt(mx, my)

\* Update with the cursor in the first cell or right of the last one.
CallUpdateInOrOut == \E mx \in {0, MaxDim * TileWidth} : UpdateAt(mx, 0)

\* Draw on the root: Draw has no result, the run loop gets no error from it;
\* call.err is what c.update returned inside it.
CallDraw ==
    \E drawing \in SUBSET MountedIds(components),
       ord \in OrdersOf(IdList(MountedIds(components))) :
        LET upd == update(HookOf(preRenderHook, Root), HookOf(postRenderHook, Root)) IN
        /\ trace' = IF upd.drawn
                     THEN draw(consoles, buffer, components, Root, 0, 0, drawing, ord)
                     ELSE <<>>
        /\ call' = Returned("Draw", Root, NilConsole, upd.err)
        /\ host' = [op |-> "Draw", err |-> NilError]
        /\ UNCHANGED <<treeVars, concVars, tickHook, preRenderHook, postRenderHook, cursor,
                       components, input>>

\* AddComponent, RemoveComponent and HasComponent, each under c.mtx.
AddComponentOn(c, id) ==
    /\ components' = (c :> (ComponentsOf(components, c) \cup {id})) @@ components
    /\ call' = Returned("AddComponent", c, id, NilError)
    /\ UNCHANGED <<treeVars, concVars, tickHook, preRenderHook, postRenderHook, host,
                   cursor, trace, input>>

CallAddComponent == \E c \in DOMAIN consoles, id \in ComponentIds : AddComponentOn(c, id)

CallRemoveComponent ==
    \E c \in DOMAIN consoles, id \in ComponentIds :
        /\ components' = IF c \in DOMAIN components
                          THEN [components EXCEPT ![c] = @ \ {id}] ELSE components
        /\ call' = Returned("RemoveComponent", c, id, NilError)
        /\ UNCHANGED <<treeVars, concVars, tickHook, preRenderHook, postRenderHook, host,
                       cursor, trace, input>>

HasComponent(comps, c, id) == id \in ComponentsOf(comps, c)

HookNotOnSubConsole == ErrorsNew("can't hook into sub-console")

CallSetTickHook ==
    \E c \in DOMAIN consoles, hook \in HookValues :
        IF consoles[c].isSubConsole
        THEN /\ call' = Returned("SetTickHook", c, NilConsole, HookNotOnSubConsole)
             /\ UNCHANGED <<treeVars, concVars, frameVars, input>>
        ELSE /\ tickHook' = (c :> hook) @@ tickHook
             /\ call' = Returned("SetTickHook", c, NilConsole, NilError)
             /\ UNCHANGED <<treeVars, concVars, preRenderHook, postRenderHook, host, cursor,
                            components, trace, input>>

\* SetPreRenderHook without the test of isSubConsole.
SetPreRenderHookAnywhere ==
    \E c \in DOMAIN consoles, hook \in HookValues :
        /\ preRenderHook' = (c :> hook) @@ preRenderHook
        /\ call' = Returned("SetPreRenderHook", c, NilConsole, NilError)
        /\ UNCHANGED <<treeVars, concVars, tickHook, postRenderHook, host, cursor,
                            components, trace, input>>

CallSetPreRenderHook ==
    \E c \in DOMAIN consoles, hook \in HookValues :
        IF consoles[c].isSubConsole
        THEN /\ call' = Returned("SetPreRenderHook", c, NilConsole, HookNotOnSubConsole)
             /\ UNCHANGED <<treeVars, concVars, frameVars, input>>
        ELSE /\ preRenderHook' = (c :> hook) @@ preRenderHook
             /\ call' = Returned("SetPreRenderHook", c, NilConsole, NilError)
             /\ UNCHANGED <<treeVars, concVars, tickHook, postRenderHook, host, cursor,
                            components, trace, input>>

CallSetPostRenderHook ==
    \E c \in DOMAIN consoles, hook \in HookValues :
        IF consoles[c].isSubConsole
        THEN /\ call' = Returned("SetPostRenderHook", c, NilConsole, HookNotOnSubConsole)
             /\ UNCHANGED <<treeVars, concVars, frameVars, input>>
        ELSE /\ postRenderHook' = (c :> hook) @@ postRenderHook
             /\ call' = Returned("SetPostRenderHook", c, NilConsole, NilError)
             /\ UNCHANGED <<treeVars, concVars, tickHook, preRenderHook, host, cursor,
                            components, trace, input>>

\* Start: on the root it hands the console to ebiten.RunGame, the run loop.
CallStart ==
    \E c \in DOMAIN consoles :
        IF consoles[c].isSubConsole
        THEN /\ call' = Returned("Start", c, NilConsole,
                                 ErrorsNew("only the main console can be started"))
             /\ UNCHANGED <<treeVars, concVars, frameVars, input>>
        ELSE /\ host' = [op |-> "RunGame", err |-> NilError]
             /\ call' = Returned("Start", c, NilConsole, NilError)
             /\ UNCHANGED <<treeVars, concVars, tickHook, preRenderHook, postRenderHook,
                            cursor, components, trace, input>>

(***************************************************************************)
(* SpecMouse: a tree of nested sub-consoles is built and Update runs with  *)
(* the cursor at different places.                                         *)
(***************************************************************************)
CallCreateNested ==
    \E c \in DOMAIN consoles, x \in SubXs, y \in SubYs,
       width \in SubWidths, height \in SubHeights :
        CreateSubConsoleOn(c, x, y, width, height, MouseSubs) /\ UNCHANGED input

NextMouse == CallCreateNested \/ CallUpdate

SpecMouse == Init /\ [][NextMouse]_vars

RECURSIVE OriginX(_, _)
RECURSIVE OriginY(_, _)
\* The top-left corner of console c in cells of the root.
OriginX(cs, c) == IF cs[c].parent = NilConsole THEN cs[c].x
                  ELSE cs[c].x + OriginX(cs, cs[c].parent)
OriginY(cs, c) == IF cs[c].parent = NilConsole THEN cs[c].y
                  ELSE cs[c].y + OriginY(cs, cs[c].parent)

\* The cell Update computes for the cursor.
CursorCell == <<GoDiv(cursor[1], TileWidth), GoDiv(cursor[2], TileHeight)>>

RectContains(cs, c, p) ==
    /\ OriginX(cs, c) <= p[1] /\ p[1] < OriginX(cs, c) + cs[c].Width
    /\ OriginY(cs, c) <= p[2] /\ p[2] < OriginY(cs, c) + cs[c].Height

\* C4: after an Update with the cursor at cell p, every console of the tree
\* whose rectangle does not contain p reports MousePosition() = (-1,-1), and
\* a console whose top-left corner is p reports (0,0).
C4_MouseOutsideIsMinusOne ==
    call.op = "Update" =>
        \A c \in DOMAIN consoles :
            /\ ~RectContains(consoles, c, CursorCell)
                  => MousePosition(consoles[c]) = <<0 - 1, 0 - 1>>
            /\ <<OriginX(consoles, c), OriginY(consoles, c)>> = CursorCell
                  => MousePosition(consoles[c]) = <<0, 0>>

(***************************************************************************)
(* SpecFrame: hooks are set on the root and the run loop calls Update and  *)
(* Draw.                                                                   *)
(***************************************************************************)
CallCreateOne ==
    \E g \in ConcGeometries :
        CreateSubConsoleOn(Root, g[1], g[2], g[3], g[4], 1) /\ UNCHANGED input

NextFrame ==
    \/ CallCreateOne
    \/ CallSetTickHook
    \/ CallSetPreRenderHook
    \/ CallSetPostRenderHook
    \/ CallUpdate
    \/ CallDraw

SpecFrame == Init /\ [][NextFrame]_vars

FrameCallbacks == {"Update", "Draw"}

\* C10: whenever the tick hook, the pre-render hook or the post-render hook
\* returns an error, the frame callback that called it (Update for the tick
\* hook, Draw for the render hooks) hands that error to the host run loop.
C10_HookErrorReachesHost ==
    (call.op \in FrameCallbacks /\ ~call.err.isNil) => host.err = call.err

(***************************************************************************)
(* SpecKind: the calls that are for one kind of node only, made on the     *)
(* root and on a sub-console.                                              *)
(***************************************************************************)
NextKind ==
    \/ CallCreateOne
    \/ CallSetTickHook
    \/ CallSetPreRenderHook
    \/ CallSetPostRenderHook
    \/ CallStart
    \/ CallSetPriority

SpecKind == Init /\ [][NextKind]_vars

HookOps == {"SetTickHook", "SetPreRenderHook", "SetPostRenderHook", "Start"}

\* The call that has just returned was made on the wrong kind of node.
WrongKindOfNode(cl, cs) ==
    \/ cl.op \in HookOps /\ cs[cl.c].isSubConsole
    \/ cl.op = "SetPriority" /\ ~cs[cl.c].isSubConsole

\* C11: SetTickHook, SetPreRenderHook, SetPostRenderHook and Start on a
\* sub-console, and SetPriority on the root, return an error and change
\* nothing: no hook of any console, no priority, no child list, nothing
\* started.
C11_WrongNodeKindNoEffect ==
    [][(call'.op \in HookOps \cup {"SetPriority"} /\ WrongKindOfNode(call', consoles))
          => /\ ~call'.err.isNil
             /\ UNCHANGED <<consoles, buffer, tickHook, preRenderHook, postRenderHook, host>>]_vars

\* A hook setter has failed on a sub-console while the root has a hook.
C11_Witness ==
    /\ call.op = "SetPreRenderHook"
    /\ consoles[call.c].isSubConsole
    /\ ~call.err.isNil
    /\ HookOf(tickHook, Root) = "ok"
    /\ HookOf(preRenderHook, call.c) = NoHook

(***************************************************************************)
(* SpecCreate: sub-consoles are created in the root and in sub-consoles,   *)
(* and their priorities set; input holds the arguments of the last         *)
(* CreateSubConsole.                                                       *)
(***************************************************************************)
CallCreateRecorded ==
    \E c \in DOMAIN consoles, x \in SubXs, y \in SubYs,
       width \in SubWidths, height \in SubHeights :
        /\ CreateSubConsoleOn(c, x, y, width, height, CreateSubs)
        /\ input' = <<x, y, width, height>>

NextCreate == CallCreateRecorded \/ CallSetPriority

SpecCreate == Init /\ [][NextCreate]_vars

\* The new sub-console: offset (x,y), size width x height, every cell empty.
IsFreshSubConsole(cs, buf, con, c, x, y, width, height) ==
    /\ cs[con].isSubConsole /\ cs[con].parent = c
    /\ cs[con].x = x /\ cs[con].y = y
    /\ cs[con].Width = width /\ cs[con].Height = height
    /\ cs[con].SubConsoles = <<>>
    /\ DOMAIN buf[con] = (0..(width - 1)) \X (0..(height - 1))
    /\ \A p \in DOMAIN buf[con] : buf[con][p] = emptyCell

Members(list) == {list[i] : i \in 1..Len(list)}

\* C12: CreateSubConsole(x,y,w,h) succeeds exactly when x>=0, y>=0, w>0, h>0,
\* x+w <= parent.Width and y+h <= parent.Height; on success the parent's
\* child list gains exactly the one new sub-console, at offset (x,y) with all
\* cells empty; otherwise a bounds error is returned and no child list changes.
C12_CreateSubConsoleContract ==
    [][call'.op = "CreateSubConsole" /\ Len(input') = 4 =>
        LET x == input'[1]  y == input'[2]  width == input'[3]  height == input'[4]
            c == call'.c
            con == call'.con
            inside == /\ x >= 0 /\ y >= 0 /\ width > 0 /\ height > 0
                      /\ x + width <= consoles[c].Width
                      /\ y + height <= consoles[c].Height
        IN  /\ call'.err.isNil <=> inside
            /\ inside =>
                  /\ con \notin DOMAIN consoles
                  /\ Len(consoles'[c].SubConsoles) = Len(consoles[c].SubConsoles) + 1
                  /\ Members(consoles'[c].SubConsoles)
                        = Members(consoles[c].SubConsoles) \cup {con}
                  /\ IsFreshSubConsole(consoles', buffer', con, c, x, y, width, height)
                  /\ \A k \in DOMAIN consoles \ {c} :
                        consoles'[k].SubConsoles = consoles[k].SubConsoles
            /\ ~inside =>
                  /\ call'.err = ErrorsNew("sub-console is out of bounds")
                  /\ UNCHANGED <<consoles, buffer>>]_vars

\* A sub-console has been created inside a sub-console, touching the right
\* edge of its parent.
C12_Witness ==
    /\ call.op = "CreateSubConsole" /\ call.err.isNil
    /\ Len(input) = 4
    /\ call.c # Root
    /\ input[1] > 0
    /\ input[1] + input[3] = consoles[call.c].Width
    /\ Len(consoles[call.c].SubConsoles) = 1

(***************************************************************************)
(* SpecRemove: sub-consoles are created in and removed from the root and   *)
(* sub-consoles, and the run loop calls Update and Draw.                   *)
(***************************************************************************)
CallCreateIn ==
    \E c \in DOMAIN consoles, g \in ConcGeometries :
        CreateSubConsoleOn(c, g[1], g[2], g[3], g[4], MaxSubs) /\ UNCHANGED input

CallRemoveNested ==
    \E c \in DOMAIN consoles, con \in SubIds(consoles) : RemoveSubConsoleOn(c, con)

NextRemove == CallCreateIn \/ CallRemoveNested \/ CallUpdateInOrOut \/ CallDraw

SpecRemove == Init /\ [][NextRemove]_vars

RECURSIVE Attached(_, _)
\* Console c and the consoles below it in the tree.
Attached(cs, c) ==
    {c} \cup UNION {Attached(cs, cs[c].SubConsoles[i]) : i \in 1..Len(cs[c].SubConsoles)}

Visited(tr) == {tr[i].con : i \in 1..Len(tr)}

\* C13: RemoveSubConsole(child) on a parent that has child in its list removes
\* exactly that child, every other child stays in the list exactly once, and
\* no later Update or Draw traversal visits (or changes) a console that is
\* not in the tree; when child is not in the parent's list it returns the
\* not-found error and no list changes.
C13_RemoveSubConsoleContract ==
    [][/\ call'.op = "RemoveSubConsole" =>
            LET c == call'.c
                con == call'.con
                before == consoles[c].SubConsoles
                after == consoles'[c].SubConsoles
            IN  IF con \in Members(before)
                THEN /\ call'.err.isNil
                     /\ Members(after) = Members(before) \ {con}
                     /\ Len(after) = Cardinality(Members(after))
                     /\ \A k \in DOMAIN consoles \ {c} :
                           consoles'[k].SubConsoles = consoles[k].SubConsoles
                ELSE /\ call'.err = ErrorsNew("sub-console not found")
                     /\ UNCHANGED consoles
       /\ call'.op \in FrameCallbacks =>
            /\ Visited(trace') \subseteq Attached(consoles, Root)
            /\ \A k \in DOMAIN consoles \ Attached(consoles, Root) :
                  consoles'[k] = consoles[k]]_vars

\* Draw has run over a tree from which the first of three children of one
\* parent was removed.
C13_Witness ==
    /\ call.op = "Draw"
    /\ \E c \in DOMAIN consoles :
          /\ Len(consoles[c].SubConsoles) = 2
          /\ \E con \in SubIds(consoles) :
                /\ consoles[con].parent = c
                /\ con \notin Members(consoles[c].SubConsoles)
                /\ con < consoles[c].SubConsoles[1]
                /\ con < consoles[c].SubConsoles[2]
    /\ Len(trace) = 3

(***************************************************************************)
(* SpecComponents: components are mounted on and removed from the root and *)
(* a sub-console, and the run loop calls Update.                           *)
(***************************************************************************)
NextComponents ==
    \/ CallCreateOne
    \/ CallAddComponent
    \/ CallRemoveComponent
    \/ CallUpdateInOrOut

SpecComponents == Init /\ [][NextComponents]_vars

\* What the component id of console c did when the traced Update asked it.
Asked(tr, c, id) ==
    {tr[i].res : i \in {j \in 1..Len(tr) :
                          tr[j].fn = "component" /\ tr[j].con = c /\ tr[j].id = id}}

\* C14: after an Update tick every component that was mounted on a console of
\* the tree and signalled closure, or whose update returned false, in that
\* tick is no longer mounted; every other mounted component is still mounted
\* (and nothing else is).
C14_UpdateUnmountsClosedComponents ==
    [][call'.op = "Update" =>
        \A c \in Attached(consoles, Root), id \in ComponentIds :
            IF HasComponent(components, c, id)
            THEN /\ Cardinality(Asked(trace', c, id)) = 1
                 /\ HasComponent(components', c, id) <=> Asked(trace', c, id) = {"keep"}
            ELSE ~HasComponent(components', c, id)]_vars

\* An Update in which a component of the sub-console returned false from its
\* update and is gone, and a component of the root stayed.
C14_Witness ==
    /\ call.op = "Update"
    /\ \E c \in SubIds(consoles), id \in ComponentIds :
          /\ Asked(trace, c, id) = {"stop"}
          /\ ~HasComponent(components, c, id)
    /\ \E id \in ComponentIds :
          Asked(trace, Root, id) = {"keep"} /\ HasComponent(components, Root, id)

(***************************************************************************)
(* SpecCells: one console, filled by a TransformAll, then one buffer call. *)
(***************************************************************************)
Red == RGB(255, 0, 0)

\* The transformer lists a caller passes.
TransLists ==
    {<<>>, <<TChar(ByteOf("a"))>>, <<TBackground(Red)>>,
     <<TChar(ByteOf("b")), TBackground(Red)>>, <<TFail>>,
     <<TChar(ByteOf("a")), TFail>>, <<TFail, TChar(ByteOf("b"))>>}

Fills == {<<TCell(emptyCell)>>, <<TChar(ByteOf("b"))>>, <<TBackground(Red)>>}

Coords == (0 - 1)..MaxDim
Extents == 0..(MaxDim + 1)

InitCells ==
    /\ \E w \in 1..MaxDim, h \in 1..MaxDim, fill \in Fills :
          LET n == New(w, h) IN
          /\ consoles = (Root :> n.con)
          /\ buffer = (Root :> TransformAll(n.con, n.buf, fill).buf)
    /\ ConcIdle /\ FrameIdle
    /\ input = <<>>
    /\ call = NoCall

\* What a buffer call leaves: the buffer, and the call with its result.
CellsDone(op, x, y, width, height, transformer, r) ==
    /\ buffer' = [buffer EXCEPT ![Root] = r.buf]
    /\ call' = [op |-> op, x |-> x, y |-> y, width |-> width, height |-> height,
                transformer |-> transformer, err |-> r.err, before |-> buffer[Root]]
    /\ UNCHANGED <<consoles, concVars, frameVars, input>>

CallTransform ==
    /\ call = NoCall
    /\ \E x \in Coords, y \in Coords, transformer \in TransLists :
          CellsDone("Transform", x, y, 1, 1, transformer,
                    Transform(consoles[Root], buffer[Root], x, y, transformer))

CallTransformArea ==
    /\ call = NoCall
    /\ \E x \in Coords, y \in Coords, width \in Extents, height \in Extents,
          transformer \in TransLists :
          CellsDone("TransformArea", x, y, width, height, transformer,
                    TransformArea(consoles[Root], buffer[Root], x, y, width, height, transformer))

CallTransformAll ==
    /\ call = NoCall
    /\ \E transformer \in TransLists :
          CellsDone("TransformAll", 0, 0, consoles[Root].Width, consoles[Root].Height,
                    transformer, TransformAll(consoles[Root], buffer[Root], transformer))

CallClear ==
    /\ call = NoCall
    /\ \E x \in Coords, y \in Coords, width \in Extents, height \in Extents :
          CellsDone("Clear", x, y, width, height, <<TCell(emptyCell)>>,
                    Clear(consoles[Root], buffer[Root], x, y, width, height))

CallClearAll ==
    /\ call = NoCall
    /\ CellsDone("ClearAll", 0, 0, consoles[Root].Width, consoles[Root].Height,
                 <<TCell(emptyCell)>>, ClearAll(consoles[Root], buffer[Root]))

NextCells ==
    CallTransformArea \/ CallTransform \/ CallTransformAll \/ CallClear \/ CallClearAll

SpecCells == InitCells /\ [][NextCells]_vars

\* The four boundary conditions of a rectangle on console c.
RectViolates(c, x, y, width, height) ==
    x < 0 \/ y < 0 \/ x + width > c.Width \/ y + height > c.Height

\* The k-th cell (from 0) of the sweep of a rectangle, columns outermost.
SweepCell(x, y, height, k) == <<x + (k \div height), y + (k % height)>>

\* The cells of the sweep that come before its first cell outside c.
VisitedBefore(c, x, y, width, height) ==
    IF width <= 0 \/ height <= 0 THEN {}
    ELSE {SweepCell(x, y, height, k) : k \in
            {n \in 0..(width * height - 1) :
                \A j \in 0..n : SweepCell(x, y, height, j) \in Positions(c.Width, c.Height)}}

Changed(before, after) == {p \in DOMAIN before : before[p] # after[p]}

BoundsError == ErrorsNew("position out of bounds")

CellCallOutside ==
    /\ call.op \in {"Transform", "TransformArea"}
    /\ RectViolates(consoles[Root], call.x, call.y, call.width, call.height)

\* C3 as claimed: every Transform or TransformArea whose coordinate or
\* rectangle violates one of the four boundary conditions returns the bounds
\* error and changes no cell but those the sweep visited before.
C3_OutsideAlwaysBoundsError ==
    CellCallOutside =>
        /\ call.err = BoundsError
        /\ Changed(call.before, buffer[Root])
              \subseteq VisitedBefore(consoles[Root], call.x, call.y, call.width, call.height)

Fails(transformer) == \E i \in 1..Len(transformer) : transformer[i].kind = "Fail"

\* C3 as amended: when the rectangle is not empty (width > 0, height > 0) and
\* Transform is given at least one transformer, a call that violates a
\* boundary condition returns an error and changes no cell but those the
\* sweep visited before; the error is the bounds error unless a transformer
\* returned its own error on a cell visited before.
C3_OutsideNonEmptyIsError ==
    (/\ CellCallOutside
     /\ call.width > 0 /\ call.height > 0
     /\ call.op = "Transform" => Len(call.transformer) > 0)
    => LET seen == VisitedBefore(consoles[Root], call.x, call.y, call.width, call.height)
       IN  /\ call.err = IF Fails(call.transformer) /\ seen # {}
                         THEN ErrorsNew("transformer failed") ELSE BoundsError
           /\ Changed(call.before, buffer[Root]) \subseteq seen

\* A TransformArea that ran out of the console after changing a cell.
C3_Witness ==
    /\ CellCallOutside
    /\ call.op = "TransformArea"
    /\ call.width > 0 /\ call.height > 0
    /\ call.err = BoundsError
    /\ Changed(call.before, buffer[Root]) # {}

RECURSIVE ApplyEvery(_, _, _)
\* Every transformer of the list applied in order to cell, whatever errors
\* they return.
ApplyEvery(transformer, i, cell) ==
    IF i > Len(transformer) THEN cell
    ELSE ApplyEvery(transformer, i + 1, ApplyTransformer(transformer[i], cell).cell)

\* The transformers before the first one that returns an error on cell.
RECURSIVE UpToFirstError(_, _, _)
UpToFirstError(transformer, i, cell) ==
    IF i > Len(transformer) \/ ~ApplyTransformer(transformer[i], cell).err.isNil
    THEN SubSeq(transformer, 1, i - 1)
    ELSE UpToFirstError(transformer, i + 1, ApplyTransformer(transformer[i], cell).cell)

TransformInBounds ==
    /\ call.op = "Transform"
    /\ call.x >= 0 /\ call.x < consoles[Root].Width
    /\ call.y >= 0 /\ call.y < consoles[Root].Height

OtherCellsUnchanged ==
    \A p \in DOMAIN buffer[Root] \ {<<call.x, call.y>>} : buffer[Root][p] = call.before[p]

\* C15: for every in-bounds (x,y) and any transform list, after
\* Transform(x, y, transforms...) the cell at (x,y) is the result of applying
\* every transform of the list, in the given order, to its previous value, and
\* no other cell of the buffer is changed.
C15_TransformAppliesEveryTransform ==
    TransformInBounds =>
        /\ buffer[Root][<<call.x, call.y>>]
              = ApplyEvery(call.transformer, 1, call.before[<<call.x, call.y>>])
        /\ OtherCellsUnchanged

\* C15 as the code has it: the cell is the result of applying, in order, the
\* transforms before the first one that returns an error (all of them when
\* none does); no other cell is changed.
C15_TransformAppliesUpToFirstError ==
    TransformInBounds =>
        LET old == call.before[<<call.x, call.y>>]
            applied == UpToFirstError(call.transformer, 1, old)
        IN  /\ buffer[Root][<<call.x, call.y>>] = ApplyEvery(applied, 1, old)
            /\ OtherCellsUnchanged
            /\ (applied = call.transformer /\ Len(applied) > 0) <=> call.err.isNil

\* Two transforms were applied to a cell that held something else, in a
\* buffer with other cells.
C15_Witness ==
    /\ TransformInBounds
    /\ call.transformer = <<TChar(ByteOf("b")), TBackground(Red)>>
    /\ call.before[<<call.x, call.y>>] = emptyCell
    /\ call.err.isNil
    /\ buffer[Root][<<call.x, call.y>>].Char = ByteOf("b")
    /\ buffer[Root][<<call.x, call.y>>].Background = Red
    /\ Cardinality(DOMAIN buffer[Root]) > 1

(***************************************************************************)
(* SpecPrint: a new console and one text call on it.                       *)
(***************************************************************************)
TagRed == <<"[", "[", "f", ":", "#", "f", "0", "0", "]", "]">>
TagBoth == <<"[", "[", "f", ":", "#", "f", "0", "0", "|", "b", ":", "#", "0", "0", "f", "f", "0", "0", "]", "]">>

Letters == <<"a", "b", "c", "d", "e", "f">>

\* Every text of at most MaxLen a's and newlines, every text "a", "ab", ...
\* of distinct letters (the wrapping example "abcdef" among them), and texts
\* with tags and with brackets that are no tag.
TextInputs ==
    StringsUpTo({"a", "\n"}, MaxLen)
        \cup {SubSeq(Letters, 1, n) : n \in 1..Len(Letters)}
        \cup {<<"a", "b", "\n", "c", "d">>,
              TagRed \o <<"a", "b">>,
              <<"a">> \o TagRed \o <<"b", "\n", "a">>,
              <<"a">> \o TagBoth \o <<"b", "a", "b">>,
              <<"[", "[", "f", ":", "#", "g", "]", "]">>}

PrintWidth == MaxDim + 1
PrintCoords == (0 - 1)..PrintWidth
PrintRows == (0 - 1)..1
WrapWidths == 0..PrintWidth
HeightLimits == 0..2
SkipLines == 0..2
PrintTrans == {<<>>, <<TFail>>}

InitPrint ==
    /\ \E w \in 1..PrintWidth :
          LET n == New(w, PrintWidth) IN
          /\ consoles = (Root :> n.con)
          /\ buffer = (Root :> n.buf)
    /\ ConcIdle /\ FrameIdle
    /\ input \in TextInputs
    /\ call = NoCall

\* What a text call leaves: the buffer, and the call with its result.
PrintDone(op, x, y, width, height, sy, transformer, r) ==
    /\ buffer' = [buffer EXCEPT ![Root] = r.buf]
    /\ call' = [op |-> op, x |-> x, y |-> y, width |-> width, height |-> height,
                sy |-> sy, transformer |-> transformer, text |-> input,
                ret |-> r.ret, writes |-> r.writes]
    /\ UNCHANGED <<consoles, concVars, frameVars, input>>

CallPrintBoundedOffset ==
    /\ call = NoCall
    /\ \E x \in PrintCoords, y \in PrintRows, width \in WrapWidths, height \in HeightLimits,
          sy \in SkipLines :
          PrintDone("PrintBoundedOffset", x, y, width, height, sy, <<>>,
                    PrintBoundedOffset(consoles[Root], buffer[Root], x, y, width, height, sy,
                                       input, <<>>))

CallPrintBounded ==
    /\ call = NoCall
    /\ \E x \in PrintCoords, y \in PrintRows, width \in WrapWidths, height \in HeightLimits,
          transformer \in PrintTrans :
          PrintDone("PrintBounded", x, y, width, height, 0, transformer,
                    PrintBounded(consoles[Root], buffer[Root], x, y, width, height, input,
                                 transformer))

CallPrint ==
    /\ call = NoCall
    /\ \E x \in PrintCoords, y \in PrintRows :
          PrintDone("Print", x, y, 0, 0, 0, <<>>,
                    PrintText(consoles[Root], buffer[Root], x, y, input, <<>>))

CallCalcTextHeight ==
    /\ call = NoCall
    /\ \E width \in WrapWidths, height \in HeightLimits :
          /\ call' = [op |-> "CalcTextHeight", x |-> 0, y |-> 0, width |-> width,
                      height |-> height, sy |-> 0, transformer |-> <<>>, text |-> input,
                      ret |-> CalcTextHeight(width, height, input), writes |-> <<>>]
          /\ UNCHANGED <<treeVars, concVars, frameVars, input>>

NextPrint ==
    CallPrintBounded \/ CallPrintBoundedOffset \/ CallPrint \/ CallCalcTextHeight

SpecPrint == InitPrint /\ [][NextPrint]_vars

PrintOps == {"PrintBoundedOffset", "PrintBounded", "Print"}

\* C5: CalcTextHeight(width, 0, text) equals the line count returned by the
\* unbounded-height PrintBounded(x, y, width, 0, text) on the same console.
C5_CalcTextHeightAgreesWithPrintBounded ==
    (call.op = "PrintBounded" /\ call.height = 0)
        => call.ret = CalcTextHeight(call.width, 0, call.text)

NumNewlines(text) == Cardinality({i \in 1..Len(text) : text[i] = "\n"})

\* The lines on which the call placed a character.
RenderedLines == {call.writes[k].line : k \in {n \in 1..Len(call.writes) : call.writes[n].ok}}

\* The lines of a layout of total lines that are neither skipped nor clipped
\* by height.
VisibleLines(total, height, sy) ==
    {l \in 0..(total - 1) : l >= sy /\ (height <= 0 \/ l < height)}

\* The lines PrintBoundedOffset lays out: a line per newline, and the wraps
\* CalcTextHeight counts where the wrap width fits the console from x on (no
\* wrap is taken where it does not).
LinesLaidOut(c, x, width, height, text) ==
    IF width <= 0 \/ x + width <= c.Width
    THEN CalcTextHeight(width, height, text)
    ELSE 1 + NumNewlines(ParseColoredText(text).cleaned)

RECURSIVE UnclippedLayout(_, _, _, _, _)
UnclippedLayout(cleaned, width, i, line, linePos) ==
    IF i >= Len(cleaned) THEN {}
    ELSE LET val == cleaned[i + 1]
             brk == LineBreak(val, width, linePos)
             line1 == IF brk THEN line + 1 ELSE line
             linePos1 == IF brk THEN 0 ELSE linePos
         IN  IF val = "\n" THEN UnclippedLayout(cleaned, width, i + 1, line1, linePos1)
             ELSE {[i |-> i, line |-> line1, linePos |-> linePos1]}
                  \cup UnclippedLayout(cleaned, width, i + 1, line1, linePos1 + 1)

\* The characters the call handed to c.Transform, with their line and their
\* position in the line.
PlacedCharacters ==
    {[i |-> call.writes[k].i, line |-> call.writes[k].line,
      linePos |-> call.writes[k].x - call.x] : k \in 1..Len(call.writes)}

\* C18: a character of PrintBoundedOffset that is clipped (column x+linePos >=
\* console width, or line >= height with height > 0) still advances the
\* cursor: the characters placed are exactly those of the layout without
\* clipping that are neither clipped nor skipped, each at its line and
\* position of that layout.
C18_ClippedCharacterAdvancesCursor ==
    call.op \in PrintOps =>
        PlacedCharacters =
            {p \in UnclippedLayout(ParseColoredText(call.text).cleaned, call.width, 0, 0, 0) :
                /\ call.x + p.linePos < consoles[Root].Width
                /\ call.height <= 0 \/ p.line < call.height
                /\ p.line >= call.sy}

CeilDiv(n, w) == (n + w - 1) \div w

\* A PrintBounded(x, y, w, 0, text) without transformers of a text without
\* tags and newlines whose wrapped lines lie inside the console.
WrappedInside ==
    /\ call.op = "PrintBounded"
    /\ call.transformer = <<>>
    /\ call.height = 0 /\ call.width > 0
    /\ Len(call.text) >= 1
    /\ ParseColoredText(call.text) = [cleaned |-> call.text, colors |-> <<>>]
    /\ \A i \in 1..Len(call.text) : call.text[i] # "\n"
    /\ call.x >= 0 /\ call.x + call.width <= consoles[Root].Width
    /\ call.y >= 0
    /\ call.y + CeilDiv(Len(call.text), call.width) <= consoles[Root].Height

\* C7: such a call writes character i (from 0) to cell (x + i mod w,
\* y + i div w), writes no other cell, and returns ceil(n / w).
C7_WrapPlacesEveryCharacter ==
    WrappedInside =>
        LET n == Len(call.text)
            w == call.width
            target(i) == <<call.x + (i % w), call.y + (i \div w)>>
        IN  /\ \A i \in 0..(n - 1) :
                  buffer[Root][target(i)] = [emptyCell EXCEPT !.Char = ByteOf(call.text[i + 1])]
            /\ \A p \in DOMAIN buffer[Root] :
                  p \notin {target(i) : i \in 0..(n - 1)} => buffer[Root][p] = emptyCell
            /\ call.ret = CeilDiv(n, w)

\* The wrapping example: "abcdef" with wrap width 3 at (0, 0) returns 2.
C7_Witness ==
    /\ WrappedInside
    /\ call.text = Letters
    /\ call.width = 3 /\ call.x = 0 /\ call.y = 0
    /\ call.ret = 2
    /\ buffer[Root][<<0, 1>>].Char = ByteOf("d")

(***************************************************************************)
(* SpecHex: the caller picks a string and parses it.                       *)
(***************************************************************************)
HexDigitsSeen == {"/", "0", "1", "9", ":", "@", "A", "F", "G", "_", "a", "f", "g"}

\* Every string over a small alphabet, and every "#xyz" over the digits
\* around the borders of the three digit ranges.
HexInputs ==
    StringsUpTo({"#", "1", "f", "g"}, MaxHexLen)
        \cup {<<"#", p, q, r>> : p \in HexDigitsSeen, q \in HexDigitsSeen, r \in HexDigitsSeen}

InitHex ==
    /\ TreeIdle /\ ConcIdle /\ FrameIdle
    /\ input \in HexInputs
    /\ call = NoCall

CallHex ==
    /\ call = NoCall
    /\ call' = [op |-> "Hex", hex |-> input] @@ Hex(input)
    /\ UNCHANGED <<treeVars, concVars, frameVars, input>>

CallMustHex ==
    /\ call = NoCall
    /\ call' = [op |-> "MustHex", hex |-> input] @@ MustHex(input)
    /\ UNCHANGED <<treeVars, concVars, frameVars, input>>

NextHex == CallHex \/ CallMustHex

SpecHex == InitHex /\ [][NextHex]_vars

\* A well-formed hex string: "#RGB" or "#RRGGBB" with hexadecimal digits.
IsHexDigit(ch) == ch \in {"0", "1", "9", "A", "F", "a", "f"}
WellFormedHex(s) ==
    /\ Len(s) \in {4, 7}
    /\ s[1] = "#"
    /\ \A i \in 2..Len(s) : IsHexDigit(s[i])

DigitValue(ch) ==
    CASE ch = "0" -> 0 [] ch = "1" -> 1 [] ch = "9" -> 9
      [] ch \in {"A", "a"} -> 10 [] ch \in {"F", "f"} -> 15

\* The color a well-formed string denotes.
DenotedColor(s) ==
    IF Len(s) = 4
    THEN Color(DigitValue(s[2]) * 17, DigitValue(s[3]) * 17, DigitValue(s[4]) * 17, 255)
    ELSE Color(DigitValue(s[2]) * 16 + DigitValue(s[3]),
               DigitValue(s[4]) * 16 + DigitValue(s[5]),
               DigitValue(s[6]) * 16 + DigitValue(s[7]), 255)

\* C8: Hex returns no error and the denoted, fully opaque color for every
\* "#RGB" or "#RRGGBB" string, and an error for every other string.
C8_HexAcceptsExactlyWellFormed ==
    call.op = "Hex" =>
        IF WellFormedHex(call.hex)
        THEN ~call.panic /\ call.err.isNil /\ call.col = DenotedColor(call.hex)
        ELSE ~call.panic /\ ~call.err.isNil

\* C9: MustHex returns a fully transparent color for every malformed string
\* and the color of Hex for every well-formed one.
C9_MustHexTransparentOnError ==
    call.op = "MustHex" =>
        IF WellFormedHex(call.hex)
        THEN ~call.panic /\ call.col = Hex(call.hex).col
        ELSE ~call.panic /\ call.col.A = 0

(***************************************************************************)
(* SpecLock: the frame thread runs Update and Draw step by step, with the  *)
(* locks it takes; component callbacks and the tick hook call back into    *)
(* the console, and other threads take console locks in between.           *)
(***************************************************************************)
FrameThread == 1
AppThreads == Threads \ {FrameThread}

WriterOf(c) == IF c \in DOMAIN mtx THEN mtx[c] ELSE 0
ReadersOf(c) == IF c \in DOMAIN readers THEN readers[c] ELSE {}

\* c.mtx.Lock() and c.mtx.RLock() can be taken.
CanLock(c) == WriterOf(c) = 0 /\ ReadersOf(c) = {}
CanRLock(c) == WriterOf(c) = 0

\* How thread t holds the lock of console c.
LockHeld(t, c) ==
    IF WriterOf(c) = t THEN "write" ELSE IF t \in ReadersOf(c) THEN "read" ELSE "none"

Resting == [op |-> "idle", step |-> "idle", c |-> Root, id |-> 0, beh |-> "keep",
            reenter |-> "none", todo |-> <<>>, locks |-> <<>>, err |-> NilError]

InitLock ==
    /\ InitTree
    /\ pc = [t \in Threads |-> Resting]
    /\ mtx = <<>>
    /\ readers = <<>>

RECURSIVE PreOrder(_, _)
RECURSIVE PreOrderOf(_, _, _)
\* The consoles of the tree below c in the order a traversal enters them.
PreOrderOf(cs, list, i) ==
    IF i > Len(list) THEN <<>> ELSE PreOrder(cs, list[i]) \o PreOrderOf(cs, list, i + 1)
PreOrder(cs, c) == <<c>> \o PreOrderOf(cs, cs[c].SubConsoles, 1)

RECURSIVE Flatten(_, _)
Flatten(lists, i) == IF i > Len(lists) THEN <<>> ELSE lists[i] \o Flatten(lists, i + 1)

\* The component callbacks of an Update, in the order they are made.
UpdateTodo(cs, comps, ord) ==
    LET order == PreOrder(cs, Root) IN
    Flatten([k \in 1..Len(order) |->
                LET own == RangeComponents(comps, order[k], ord)
                IN  [i \in 1..Len(own) |-> <<order[k], own[i]>>]], 1)

\* The steps of a Draw: per console the Draw callbacks of its components that
\* want to be drawn, then (id 0) its cells and the range over its children.
DrawTodo(cs, comps, drawing, ord) ==
    LET order == PreOrder(cs, Root) IN
    Flatten([k \in 1..Len(order) |->
                LET own == SelectSeq(RangeComponents(comps, order[k], ord),
                                     LAMBDA id : id \in drawing)
                IN  [i \in 1..Len(own) |-> <<order[k], own[i]>>] \o <<<<order[k], 0>>>>], 1)

RECURSIVE MouseRanges(_, _, _, _)
RECURSIVE MouseRangesOf(_, _, _, _, _)
\* The consoles whose child list propagateMousePosition ranges over.
MouseRangesOf(cs, list, i, x, y) ==
    IF i > Len(list) THEN <<>>
    ELSE MouseRanges(cs, list[i], x, y) \o MouseRangesOf(cs, list, i + 1, x, y)
MouseRanges(cs, c, x, y) ==
    IF x - cs[c].x >= cs[c].Width \/ y - cs[c].y >= cs[c].Height THEN <<>>
    ELSE <<c>> \o MouseRangesOf(cs, cs[c].SubConsoles, 1, x - cs[c].x, y - cs[c].y)

\* The accesses to the child lists of the consoles of list by thread t, with
\* the lock t holds on each at that moment.
ChildListReads(t, list) ==
    [i \in 1..Len(list) |-> Entry("range SubConsoles", list[i], 0, 0, 0, LockHeld(t, list[i]))]

\* Update: c.mtx.RLock() on the root and propagateMousePosition.
FrameUpdateBegin ==
    /\ pc[FrameThread].step = "idle"
    /\ CanRLock(Root)
    /\ \E mx \in {0},
          ord \in OrdersOf(IdList(MountedIds(components))) :
          LET x == GoDiv(mx, TileWidth)
              held == (Root :> (ReadersOf(Root) \cup {FrameThread})) @@ readers
          IN  /\ readers' = held
              /\ cursor' = <<mx, 0>>
              /\ consoles' = propagateMousePosition(consoles, Root, x, 0)
              /\ trace' = [i \in 1..Len(MouseRanges(consoles, Root, x, 0)) |->
                             LET k == MouseRanges(consoles, Root, x, 0)[i] IN
                             Entry("range SubConsoles", k, 0, 0, 0,
                                   IF k = Root THEN "read" ELSE LockHeld(FrameThread, k))]
              /\ pc' = [pc EXCEPT ![FrameThread] =
                          [Resting EXCEPT !.op = "Update", !.step = "components",
                                          !.todo = UpdateTodo(consoles, components, ord)]]
    /\ UNCHANGED <<buffer, mtx, tickHook, preRenderHook, postRenderHook, host, components,
                   input, call>>

\* The calls a component callback makes on its own console.
Reentries == {"AddComponent", "RemoveComponent", "HasComponent"}

ReenterEffect(comps, op, c, id) ==
    CASE op = "AddComponent" -> (c :> (ComponentsOf(comps, c) \cup {id})) @@ comps
      [] op = "RemoveComponent" ->
            IF c \in DOMAIN comps THEN [comps EXCEPT ![c] = @ \ {id}] ELSE comps
      [] OTHER -> comps

\* The end of one component's turn in propagateComponentUpdates: the delete
\* from the map when the component closes or its Update returned false.
AfterCallback(comps, c, id, beh) ==
    [comps |-> IF beh # "keep" /\ c \in DOMAIN comps
               THEN [comps EXCEPT ![c] = @ \ {id}] ELSE comps,
     trace |-> IF beh # "keep"
               THEN <<Entry("delete component", c, id, 0, 0, LockHeld(FrameThread, c))>>
               ELSE <<>>]

\* propagateComponentUpdates reaches the next component: its callbacks run.
\* The Update callback either returns at once or first calls back into the
\* console it is mounted on.
FrameComponentCall ==
    /\ pc[FrameThread].step = "components"
    /\ pc[FrameThread].todo # <<>>
    /\ LET c == Head(pc[FrameThread].todo)[1]
           id == Head(pc[FrameThread].todo)[2]
       IN  \E beh \in Behaviours :
            \/ /\ components' = AfterCallback(components, c, id, beh).comps
               /\ trace' = AfterCallback(components, c, id, beh).trace
               /\ pc' = [pc EXCEPT ![FrameThread].todo = Tail(@)]
            \/ /\ beh # "close"
               /\ \E op \in Reentries :
                     pc' = [pc EXCEPT ![FrameThread].step = "callback",
                                      ![FrameThread].c = c, ![FrameThread].id = id,
                                      ![FrameThread].beh = beh, ![FrameThread].reenter = op]
               /\ trace' = <<>>
               /\ UNCHANGED components
    /\ UNCHANGED <<treeVars, mtx, readers, tickHook, preRenderHook, postRenderHook, host,
                   cursor, input, call>>

\* The call made from inside a callback gets c.mtx.Lock(), does its work,
\* unlocks and returns; the callback returns after it.
FrameReenter ==
    /\ pc[FrameThread].step \in {"callback", "drawCallback"}
    /\ CanLock(pc[FrameThread].c)
    /\ LET c == pc[FrameThread].c
           id == pc[FrameThread].id
           done == ReenterEffect(components, pc[FrameThread].reenter, c, id)
           after == IF pc[FrameThread].op = "Update"
                    THEN AfterCallback(done, c, id, pc[FrameThread].beh)
                    ELSE [comps |-> done, trace |-> <<>>]
       IN  /\ components' = after.comps
           /\ trace' = <<Entry(pc[FrameThread].reenter, c, id, 0, 0, "write")>> \o after.trace
           /\ pc' = [pc EXCEPT ![FrameThread].step =
                                   IF pc[FrameThread].op = "Update" THEN "components" ELSE "draw",
                               ![FrameThread].todo = Tail(@),
                               ![FrameThread].c = Resting.c,
                               ![FrameThread].id = Resting.id,
                               ![FrameThread].beh = Resting.beh,
                               ![FrameThread].reenter = Resting.reenter]
    /\ UNCHANGED <<treeVars, mtx, readers, tickHook, preRenderHook, postRenderHook, host,
                   cursor, input, call>>

\* Update without its c.mtx.RUnlock(): the tick hook would run under the
\* root's read lock.
FrameUpdateKeepLock ==
    /\ pc[FrameThread].step = "components"
    /\ pc[FrameThread].todo = <<>>
    /\ trace' = ChildListReads(FrameThread, PreOrder(consoles, Root))
    /\ pc' = [pc EXCEPT ![FrameThread].step = "tick"]
    /\ UNCHANGED <<treeVars, mtx, readers, tickHook, preRenderHook, postRenderHook, host,
                   cursor, components, input, call>>

\* The end of propagateComponentUpdates, which has ranged over the child list
\* of every console of the tree, and c.mtx.RUnlock() on the root.
FrameUpdateUnlock ==
    /\ pc[FrameThread].step = "components"
    /\ pc[FrameThread].todo = <<>>
    /\ trace' = ChildListReads(FrameThread, PreOrder(consoles, Root))
    /\ readers' = [readers EXCEPT ![Root] = @ \ {FrameThread}]
    /\ pc' = [pc EXCEPT ![FrameThread].step = "tick"]
    /\ UNCHANGED <<treeVars, mtx, tickHook, preRenderHook, postRenderHook, host, cursor,
                   components, input, call>>

\* The lock-taking calls a tick hook makes.
HookCalls == {"Transform", "TransformArea", "Print", "CreateSubConsole",
              "RemoveSubConsole", "SetPriority", "AddComponent", "RemoveComponent"}

\* The locks the call op on console c takes one after the other, and what it
\* does under each.
HookPlan(cs, op, c) ==
    CASE op \in {"CreateSubConsole", "RemoveSubConsole"} ->
            IF op = "RemoveSubConsole" /\ cs[c].SubConsoles = <<>>
            THEN <<<<c, "op">>>>
            ELSE <<<<c, "op">>, <<c, "sort">>>>
      [] op = "SetPriority" ->
            IF cs[c].isSubConsole THEN <<<<cs[c].parent, "sort">>>> ELSE <<>>
      [] OTHER -> <<<<c, "op">>>>

\* The tree, the buffers and the components after the part what of the call
\* op on console c.
HookEffect(op, c, what) ==
    LET same == [cs |-> consoles, buf |-> buffer, comps |-> components] IN
    CASE what = "sort" -> [same EXCEPT !.cs = sortSubConsoles(consoles, c)]
      [] op = "Transform" ->
            [same EXCEPT !.buf = [buffer EXCEPT ![c] =
                Transform(consoles[c], buffer[c], 0, 0, <<TChar(ByteOf("a"))>>).buf]]
      [] op = "TransformArea" ->
            [same EXCEPT !.buf = [buffer EXCEPT ![c] =
                TransformArea(consoles[c], buffer[c], 0, 0, 1, 1, <<TChar(ByteOf("a"))>>).buf]]
      [] op = "Print" ->
            [same EXCEPT !.buf = [buffer EXCEPT ![c] =
                PrintText(consoles[c], buffer[c], 0, 0, <<"a">>, <<>>).buf]]
      [] op = "CreateSubConsole" ->
            [same EXCEPT !.cs = AppendSubConsole(consoles, c, 0, 0, 1, 1),
                         !.buf = buffer @@ (NextId(consoles) :> New(1, 1).buf)]
      [] op = "RemoveSubConsole" ->
            IF consoles[c].SubConsoles = <<>> THEN same
            ELSE [same EXCEPT !.cs = [consoles EXCEPT ![c].SubConsoles = SwapRemove(@, 1)]]
      [] op = "AddComponent" ->
            [same EXCEPT !.comps = ReenterEffect(components, op, c, 1)]
      [] op = "RemoveComponent" ->
            [same EXCEPT !.comps = ReenterEffect(components, op, c, 1)]
      [] OTHER -> same

\* Update after the unlock: the tick hook, when there is one, is called and
\* makes one call on a console of the tree.  (SetPriority writes the priority
\* before it takes a lock.)
FrameTick ==
    /\ pc[FrameThread].step = "tick"
    /\ IF HookOf(tickHook, Root) = NoHook
       THEN /\ pc' = [pc EXCEPT ![FrameThread].step = "return"]
            /\ UNCHANGED consoles
       ELSE \E op \in HookCalls, c \in Attached(consoles, Root) :
              /\ op = "CreateSubConsole" => NextId(consoles) <= LockSubs
              /\ pc' = [pc EXCEPT ![FrameThread].step = "hook",
                                  ![FrameThread].c = c,
                                  ![FrameThread].reenter = op,
                                  ![FrameThread].locks = HookPlan(consoles, op, c),
                                  ![FrameThread].err = HookReturn(HookOf(tickHook, Root))]
              /\ consoles' = IF op = "SetPriority" /\ consoles[c].isSubConsole
                             THEN [consoles EXCEPT ![c].priority = 1] ELSE consoles
    /\ trace' = <<>>
    /\ UNCHANGED <<buffer, mtx, readers, tickHook, preRenderHook, postRenderHook, host,
                   cursor, components, input, call>>

\* The hook's call takes its next lock and works under it.
FrameHookLock ==
    /\ pc[FrameThread].step = "hook"
    /\ pc[FrameThread].locks # <<>>
    /\ LET c == Head(pc[FrameThread].locks)[1]
           r == HookEffect(pc[FrameThread].reenter, pc[FrameThread].c,
                           Head(pc[FrameThread].locks)[2])
       IN  /\ CanLock(c)
           /\ mtx' = (c :> FrameThread) @@ mtx
           /\ consoles' = r.cs
           /\ buffer' = r.buf
           /\ components' = r.comps
    /\ pc' = [pc EXCEPT ![FrameThread].step = "hooklocked"]
    /\ UNCHANGED <<readers, tickHook, preRenderHook, postRenderHook, host, cursor, trace,
                   input, call>>

FrameHookUnlock ==
    /\ pc[FrameThread].step = "hooklocked"
    /\ mtx' = [mtx EXCEPT ![Head(pc[FrameThread].locks)[1]] = 0]
    /\ pc' = [pc EXCEPT ![FrameThread].step = "hook", ![FrameThread].locks = Tail(@)]
    /\ UNCHANGED <<treeVars, readers, frameVars, input, call>>

\* The hook's call has returned and the hook returns.
FrameHookReturn ==
    /\ pc[FrameThread].step = "hook"
    /\ pc[FrameThread].locks = <<>>
    /\ pc' = [pc EXCEPT ![FrameThread].step = "return"]
    /\ UNCHANGED <<treeVars, mtx, readers, frameVars, input, call>>

\* Update or Draw returns to the run loop.
FrameReturn ==
    /\ pc[FrameThread].step = "return"
    /\ call' = Returned(pc[FrameThread].op, Root, NilConsole, pc[FrameThread].err)
    /\ host' = [op |-> pc[FrameThread].op,
                err |-> IF pc[FrameThread].op = "Update" THEN pc[FrameThread].err
                        ELSE NilError]
    /\ pc' = [pc EXCEPT ![FrameThread] = Resting]
    /\ UNCHANGED <<treeVars, mtx, readers, tickHook, preRenderHook, postRenderHook, cursor,
                   components, trace, input>>

\* Draw: c.update, which calls c.draw unless the pre-render hook fails.
FrameDrawBegin ==
    /\ pc[FrameThread].step = "idle"
    /\ \E drawing \in SUBSET MountedIds(components),
          ord \in OrdersOf(IdList(MountedIds(components))) :
          LET upd == update(HookOf(preRenderHook, Root), HookOf(postRenderHook, Root)) IN
          pc' = [pc EXCEPT ![FrameThread] =
                    [Resting EXCEPT !.op = "Draw", !.step = "draw", !.err = upd.err,
                                    !.todo = IF upd.drawn
                                             THEN DrawTodo(consoles, components, drawing, ord)
                                             ELSE <<>>]]
    /\ trace' = <<>>
    /\ UNCHANGED <<treeVars, mtx, readers, tickHook, preRenderHook, postRenderHook, host,
                   cursor, components, input, call>>

\* c.draw reaches a component, whose Draw callback returns at once or first
\* calls back into the console, or (id 0) the cells of a console: RLock, the
\* cells, RUnlock, and then the range over the child list.
FrameDrawStep ==
    /\ pc[FrameThread].step = "draw"
    /\ pc[FrameThread].todo # <<>>
    /\ LET c == Head(pc[FrameThread].todo)[1]
           id == Head(pc[FrameThread].todo)[2]
       IN  IF id = 0
           THEN /\ CanRLock(c)
                /\ trace' = <<Entry("read buffer", c, 0, 0, 0, "read"),
                              Entry("range SubConsoles", c, 0, 0, 0, LockHeld(FrameThread, c))>>
                /\ pc' = [pc EXCEPT ![FrameThread].todo = Tail(@)]
           ELSE /\ trace' = <<>>
                /\ \/ pc' = [pc EXCEPT ![FrameThread].todo = Tail(@)]
                   \/ \E op \in Reentries :
                         pc' = [pc EXCEPT ![FrameThread].step = "drawCallback",
                                          ![FrameThread].c = c, ![FrameThread].id = id,
                                          ![FrameThread].reenter = op]
    /\ UNCHANGED <<treeVars, mtx, readers, tickHook, preRenderHook, postRenderHook, host,
                   cursor, components, input, call>>

FrameDrawEnd ==
    /\ pc[FrameThread].step = "draw"
    /\ pc[FrameThread].todo = <<>>
    /\ pc' = [pc EXCEPT ![FrameThread].step = "return"]
    /\ UNCHANGED <<treeVars, mtx, readers, frameVars, input, call>>

\* Another thread is in a call that holds the lock of console c.
AppLock(t) ==
    /\ pc[t].step = "idle"
    /\ \E c \in DOMAIN consoles :
          /\ CanLock(c)
          /\ mtx' = (c :> t) @@ mtx
          /\ pc' = [pc EXCEPT ![t].step = "locked", ![t].c = c]
    /\ UNCHANGED <<treeVars, readers, frameVars, input, call>>

AppUnlock(t) ==
    /\ pc[t].step = "locked"
    /\ mtx' = [mtx EXCEPT ![pc[t].c] = 0]
    /\ pc' = [pc EXCEPT ![t] = Resting]
    /\ UNCHANGED <<treeVars, readers, frameVars, input, call>>

\* No lock is held and the frame thread is between two frame callbacks.
Quiet ==
    /\ \A c \in DOMAIN consoles : CanLock(c)
    /\ pc[FrameThread].step = "idle"

\* The run loop has not made its first frame callback yet.
BeforeStart == Quiet /\ host = NoCall

NextLock ==
    \/ FrameUpdateBegin
    \/ FrameComponentCall
    \/ FrameReenter
    \/ FrameUpdateUnlock
    \/ FrameTick
    \/ FrameReturn
    \/ FrameDrawBegin
    \/ FrameDrawStep
    \/ FrameDrawEnd
    \/ \E t \in AppThreads : AppLock(t)
    \/ \E t \in AppThreads : AppUnlock(t)
    \/ Quiet /\ CallCreateOne
    \/ Quiet /\ (\E c \in DOMAIN consoles : AddComponentOn(c, 1))

SpecLock == InitLock /\ [][NextLock]_vars

(***************************************************************************)
(* SpecHook: Update with a tick hook that calls back into the consoles     *)
(* (the sub-console is the one the hook creates), while other threads take *)
(* console locks.                                                          *)
(***************************************************************************)
NextHook ==
    \/ FrameUpdateBegin
    \/ FrameComponentCall
    \/ FrameReenter
    \/ FrameUpdateUnlock
    \/ FrameTick
    \/ FrameHookLock
    \/ FrameHookUnlock
    \/ FrameHookReturn
    \/ FrameReturn
    \/ \E t \in AppThreads : AppLock(t)
    \/ \E t \in AppThreads : AppUnlock(t)
    \/ BeforeStart /\ CallSetTickHook

SpecHook == InitLock /\ [][NextHook]_vars

\* Every call that holds a lock gets to its unlock, the hook's call returns
\* when nothing blocks it, and a thread waiting in c.mtx.Lock() gets the lock
\* when it is free again and again (sync.Mutex hands the lock to a waiter
\* that has been starved).
FairHook ==
    /\ WF_vars(FrameHookUnlock)
    /\ WF_vars(FrameHookReturn)
    /\ SF_vars(FrameHookLock)
    /\ \A t \in AppThreads : WF_vars(AppUnlock(t))

SpecHookFair == SpecHook /\ FairHook

\* The frame thread holds no lock of any console.
FrameHoldsNoLock == \A c \in DOMAIN consoles : LockHeld(FrameThread, c) = "none"

\* C17: the tick hook is called while the frame thread holds no console lock,
\* and a lock-taking call the hook makes on the root or on a sub-console
\* always returns, so that Update gets to its return.
C17_TickHookCallReturns ==
    /\ [](pc[FrameThread].step \in {"tick", "hook"} => FrameHoldsNoLock)
    /\ (pc[FrameThread].step = "hook") ~> (pc[FrameThread].step = "return")

\* An Update is about to return whose tick hook has called Transform on a
\* sub-console while another thread holds the root's lock.
C17_Witness ==
    /\ pc[FrameThread].op = "Update"
    /\ pc[FrameThread].step = "return"
    /\ pc[FrameThread].reenter = "Transform"
    /\ pc[FrameThread].c # Root
    /\ buffer[pc[FrameThread].c][<<0, 0>>].Char = ByteOf("a")
    /\ \E t \in AppThreads : WriterOf(Root) = t

\* The frame thread is inside a component callback that has called
\* AddComponent, RemoveComponent or HasComponent on the component's console.
Reentering == pc[FrameThread].step \in {"callback", "drawCallback"}

\* C16: a component callback (update or draw, on the root or on a sub-console)
\* that calls AddComponent, RemoveComponent or HasComponent on its own console
\* never gets past that call: the frame thread stays inside it for ever.
C16_ReentrantCallNeverReturns ==
    [][Reentering => Reentering' /\ pc'[FrameThread] = pc[FrameThread]]_vars

\* The one case of C16 the code does produce: the update callback of a
\* component on the root re-enters while Update holds the root's read lock.
C16_RootUpdateCallbackBlocked ==
    (Reentering /\ pc[FrameThread].op = "Update" /\ pc[FrameThread].c = Root)
        => ~ENABLED FrameReenter

\* C19: every access of the frame thread (and of any thread) to a console's
\* child list happens under that console's own lock, and every mutation of a
\* console's component map under its write lock: the accesses the last step
\* made, Update's auto-unmount and child traversal and Draw's child traversal
\* included, each record the lock the acting thread held on the console.
C19_AccessesUnderOwnLock ==
    \A k \in 1..Len(trace) :
        /\ trace[k].fn = "range SubConsoles" => trace[k].res \in {"read", "write"}
        /\ trace[k].fn \in {"delete component", "AddComponent", "RemoveComponent"}
              => trace[k].res = "write"

(***************************************************************************)
(* SpecDraw: a tree of nested sub-consoles with priorities and filled      *)
(* cells is drawn; no call is in flight while Draw traverses the tree.     *)
(***************************************************************************)
DrawGeometries == {<<1, 0, 1, MaxDim>>, <<0, 1, 1, 1>>}

CallCreateDrawn ==
    \E c \in DOMAIN consoles, g \in DrawGeometries :
        /\ c \in Attached(consoles, Root)
        /\ ~SubConsoleOutOfBounds(consoles[c], g[1], g[2], g[3], g[4])
        /\ CreateSubConsoleOn(c, g[1], g[2], g[3], g[4], MaxSubs)
        /\ UNCHANGED input

\* SetPriority on a sub-console of the tree.
CallSetPriorityOfSub == CallSetPriority /\ call'.err.isNil

\* c.TransformAll(t.Char('b'), t.Background(red)) on a console whose cells
\* are still empty.
CallFill ==
    \E c \in DOMAIN consoles :
        /\ buffer[c][<<0, 0>>] = emptyCell
        /\ buffer' = [buffer EXCEPT ![c] =
              TransformAll(consoles[c], buffer[c],
                           <<TChar(ByteOf("b")), TBackground(Red)>>).buf]
        /\ call' = Returned("TransformAll", c, NilConsole, NilError)
        /\ UNCHANGED <<consoles, concVars, frameVars, input>>

\* The tree is built and filled before the run loop starts to draw it.
NextDraw ==
    \/ host = NoCall /\ CallCreateDrawn
    \/ host = NoCall /\ CallSetPriorityOfSub
    \/ host = NoCall /\ CallFill
    \/ CallDraw

SpecDraw == Init /\ [][NextDraw]_vars

\* The positions of the trace at which something of console c, or of the
\* subtree below c, is drawn.
DrawnAt(c) == {i \in 1..Len(trace) : trace[i].con = c}
SubtreeDrawnAt(c) == {i \in 1..Len(trace) : trace[i].con \in Attached(consoles, c)}

\* The pixels of the cells of console c that satisfy has, at the offset that
\* is the sum of the positions of c and of its ancestors.
PixelsOf(c, has(_)) ==
    {<<(OriginX(consoles, c) + p[1]) * TileWidth, (OriginY(consoles, c) + p[2]) * TileHeight>> :
        p \in {q \in DOMAIN buffer[c] : has(buffer[c][q])}}

DrawnPixels(c, fn) == {<<trace[i].x, trace[i].y>> : i \in {k \in DrawnAt(c) : trace[k].fn = fn}}

\* C20: in a Draw of a tree no call is changing, every console of the tree is
\* drawn: all its background rectangles before any of its glyphs, all of its
\* own before anything of its children, the subtrees of its children one
\* after the other and a child of higher priority wholly after one of lower
\* priority, each console at the pixel offset that is the sum of its own
\* position and those of its ancestors.
C20_DrawOrder ==
    (call.op = "Draw" /\ call.err.isNil) =>
        /\ \A c \in Attached(consoles, Root) :
              /\ Cardinality({i \in DrawnAt(c) : trace[i].fn = "draw"}) = 1
              /\ \A i, j \in DrawnAt(c) :
                    (trace[i].fn = "DrawRect" /\ trace[j].fn = "DrawImage") => i < j
              /\ \A i \in DrawnAt(c), j \in SubtreeDrawnAt(c) \ DrawnAt(c) : i < j
              /\ DrawnPixels(c, "DrawRect") = PixelsOf(c, LAMBDA cell : cell.Background.A # 0)
              /\ DrawnPixels(c, "DrawImage") = PixelsOf(c, LAMBDA cell : FontHasGlyph(cell.Char))
              /\ \A m, n \in 1..Len(consoles[c].SubConsoles) :
                    LET a == consoles[c].SubConsoles[m]
                        b == consoles[c].SubConsoles[n]
                    IN  /\ m # n =>
                              \/ \A i \in SubtreeDrawnAt(a), j \in SubtreeDrawnAt(b) : i < j
                              \/ \A i \in SubtreeDrawnAt(a), j \in SubtreeDrawnAt(b) : j < i
                        /\ consoles[a].priority < consoles[b].priority =>
                              \A i \in SubtreeDrawnAt(a), j \in SubtreeDrawnAt(b) : i < j
        /\ \A i \in 1..Len(trace) : trace[i].con \in Attached(consoles, Root)

\* A Draw of a root with two children of which the one created later has
\* the lower priority, the other one has a filled child of its own away from
\* the root's origin, and root and grandchild are both filled.
C20_Witness ==
    /\ call.op = "Draw"
    /\ \E a, b \in SubIds(consoles), g \in SubIds(consoles) :
          /\ consoles[a].parent = Root /\ consoles[b].parent = Root
          /\ a < b /\ consoles[a].priority > consoles[b].priority
          /\ consoles[g].parent = a
          /\ OriginX(consoles, g) > 0 /\ OriginY(consoles, g) > 0
          /\ \E i \in DrawnAt(g) : trace[i].fn = "DrawImage"
          /\ \E i \in DrawnAt(Root) : trace[i].fn = "DrawRect"
          /\ \A i \in SubtreeDrawnAt(b), j \in SubtreeDrawnAt(a) : i < j

(***************************************************************************)
(* SpecRace: the frame thread ranges over the root's child list, statement *)
(* by statement, while another thread creates, removes and re-prioritises  *)
(* children of the root.  "for i := range c.SubConsoles" reads the length  *)
(* of the list once; its body reads c.SubConsoles[i] from the list as it   *)
(* is then.  A removed entry is nil (NilConsole) until the list is cut.    *)
(***************************************************************************)
RaceSubs == 2

Still == [op |-> "idle", step |-> "idle", con |-> NilConsole, i |-> 0, n |-> 0,
          left |-> 0, visited |-> <<>>, members |-> {}, fault |-> "none",
          err |-> NilError]

InitRace ==
    /\ InitTree
    /\ pc = [t \in Threads |-> Still]
    /\ mtx = <<>>
    /\ readers = <<>>

\* The process has not panicked.
Running == \A t \in Threads : pc[t].step # "panic"

\* The frame thread is in a traversal that started to range over the list.
Ranging == pc[FrameThread].step \in {"start", "range"} /\ pc[FrameThread].members # {}

\* Update: c.mtx.RLock() on the root; its two ranges over the child list
\* (propagateMousePosition, propagateComponentUpdates) follow under it.
RaceUpdateBegin ==
    /\ Running
    /\ pc[FrameThread].step = "idle"
    /\ CanRLock(Root)
    /\ readers' = (Root :> (ReadersOf(Root) \cup {FrameThread})) @@ readers
    /\ pc' = [pc EXCEPT ![FrameThread] =
                [Still EXCEPT !.op = "Update", !.step = "start", !.left = 2]]
    /\ UNCHANGED <<treeVars, mtx, frameVars, input, call>>

\* draw on the root: c.mtx.RLock(), the cells, c.mtx.RUnlock(); the range over
\* the child list follows without the lock.
RaceDrawCells ==
    /\ Running
    /\ pc[FrameThread].step = "idle"
    /\ CanRLock(Root)
    /\ pc' = [pc EXCEPT ![FrameThread] =
                [Still EXCEPT !.op = "Draw", !.step = "start", !.left = 1]]
    /\ UNCHANGED <<treeVars, mtx, readers, frameVars, input, call>>

\* "for i := range c.SubConsoles": the length of the list is read.
RaceRangeStart ==
    /\ Running
    /\ pc[FrameThread].step = "start"
    /\ pc' = [pc EXCEPT ![FrameThread].step = "range",
                        ![FrameThread].i = 0,
                        ![FrameThread].n = Len(consoles[Root].SubConsoles),
                        ![FrameThread].members = @ \cup Members(consoles[Root].SubConsoles)]
    /\ UNCHANGED <<treeVars, mtx, readers, frameVars, input, call>>

\* The body of the range: c.SubConsoles[i] is read and the method is called
\* on it.  An index beyond the list as it is now and a nil entry both panic.
RaceVisit ==
    /\ Running
    /\ pc[FrameThread].step = "range"
    /\ pc[FrameThread].i < pc[FrameThread].n
    /\ LET list == consoles[Root].SubConsoles
           k == pc[FrameThread].i + 1
       IN  pc' = IF k > Len(list)
                 THEN [pc EXCEPT ![FrameThread].step = "panic",
                                 ![FrameThread].fault = "index out of range"]
                 ELSE IF list[k] = NilConsole
                 THEN [pc EXCEPT ![FrameThread].step = "panic",
                                 ![FrameThread].fault = "nil pointer dereference"]
                 ELSE [pc EXCEPT ![FrameThread].i = k,
                                 ![FrameThread].visited = Append(@, list[k])]
    /\ UNCHANGED <<treeVars, mtx, readers, frameVars, input, call>>

\* The range is over: the next range of Update, or c.mtx.RUnlock() in Update,
\* and the traversal is done.
RaceRangeEnd ==
    /\ Running
    /\ pc[FrameThread].step = "range"
    /\ pc[FrameThread].i = pc[FrameThread].n
    /\ IF pc[FrameThread].left > 1
       THEN /\ pc' = [pc EXCEPT ![FrameThread].step = "start", ![FrameThread].left = @ - 1]
            /\ UNCHANGED readers
       ELSE /\ pc' = [pc EXCEPT ![FrameThread].step = "return"]
            /\ readers' = IF pc[FrameThread].op = "Update"
                          THEN [readers EXCEPT ![Root] = @ \ {FrameThread}]
                          ELSE readers
    /\ UNCHANGED <<treeVars, mtx, frameVars, input, call>>

\* CreateSubConsole on the root from c.mtx.Lock() to c.mtx.Unlock().
RaceCreate(t) ==
    /\ Running
    /\ pc[t].step = "idle"
    /\ CanLock(Root)
    /\ NextId(consoles) <= RaceSubs
    /\ consoles' = AppendSubConsole(consoles, Root, 0, 0, 1, 1)
    /\ buffer' = buffer @@ (NextId(consoles) :> New(1, 1).buf)
    /\ pc' = [pc EXCEPT ![t] = [Still EXCEPT !.op = "CreateSubConsole", !.step = "sort",
                                             !.con = NextId(consoles)],
                        ![FrameThread].members =
                            IF Ranging THEN @ \cup {NextId(consoles)} ELSE @]
    /\ UNCHANGED <<mtx, readers, frameVars, input, call>>

\* RemoveSubConsole(con) on the root: c.mtx.Lock() and the search for con.
RaceRemoveLock(t) ==
    /\ Running
    /\ pc[t].step = "idle"
    /\ CanLock(Root)
    /\ \E con \in SubIds(consoles) :
          LET i == IndexOf(consoles[Root].SubConsoles, con) IN
          IF i = 0
          THEN /\ pc' = [pc EXCEPT ![t] = [Still EXCEPT !.op = "RemoveSubConsole",
                                              !.step = "return", !.con = con,
                                              !.err = ErrorsNew("sub-console not found")]]
               /\ UNCHANGED mtx
          ELSE /\ pc' = [pc EXCEPT ![t] = [Still EXCEPT !.op = "RemoveSubConsole",
                                              !.step = "swap", !.con = con, !.i = i]]
               /\ mtx' = (Root :> t) @@ mtx
    /\ UNCHANGED <<treeVars, readers, frameVars, input, call>>

\* c.SubConsoles[i] = c.SubConsoles[len(c.SubConsoles)-1]
RaceRemoveSwap(t) ==
    /\ Running
    /\ pc[t].step = "swap"
    /\ consoles' = [consoles EXCEPT ![Root].SubConsoles = SwapNoShrink(@, pc[t].i)]
    /\ pc' = [pc EXCEPT ![t].step = "nil"]
    /\ UNCHANGED <<buffer, mtx, readers, frameVars, input, call>>

\* c.SubConsoles[len(c.SubConsoles)-1] = nil
RaceRemoveNil(t) ==
    /\ Running
    /\ pc[t].step = "nil"
    /\ consoles' = [consoles EXCEPT ![Root].SubConsoles = [@ EXCEPT ![Len(@)] = NilConsole]]
    /\ pc' = [pc EXCEPT ![t].step = "cut"]
    /\ UNCHANGED <<buffer, mtx, readers, frameVars, input, call>>

\* c.SubConsoles = c.SubConsoles[:len(c.SubConsoles)-1] and c.mtx.Unlock()
RaceRemoveCut(t) ==
    /\ Running
    /\ pc[t].step = "cut"
    /\ consoles' = [consoles EXCEPT ![Root].SubConsoles = SubSeq(@, 1, Len(@) - 1)]
    /\ mtx' = [mtx EXCEPT ![Root] = 0]
    /\ pc' = [pc EXCEPT ![t].step = "sort"]
    /\ UNCHANGED <<buffer, readers, frameVars, input, call>>

\* SetPriority on a child of the root up to c.parent.sortSubConsoles().
RaceSetPriority(t) ==
    /\ Running
    /\ pc[t].step = "idle"
    /\ \E con \in Members(consoles[Root].SubConsoles), priority \in PriorityArgs :
          /\ consoles' = [consoles EXCEPT ![con].priority = priority]
          /\ pc' = [pc EXCEPT ![t] = [Still EXCEPT !.op = "SetPriority", !.step = "sort",
                                                   !.con = con]]
    /\ UNCHANGED <<buffer, mtx, readers, frameVars, input, call>>

\* sortSubConsoles on the root, from c.mtx.Lock() to c.mtx.Unlock().
RaceSort(t) ==
    /\ Running
    /\ pc[t].step = "sort"
    /\ CanLock(Root)
    /\ consoles' = sortSubConsoles(consoles, Root)
    /\ pc' = [pc EXCEPT ![t].step = "return"]
    /\ UNCHANGED <<buffer, mtx, readers, frameVars, input, call>>

\* A call or a frame callback returns.
RaceReturn(t) ==
    /\ Running
    /\ pc[t].step = "return"
    /\ call' = Returned(pc[t].op, Root, pc[t].con, pc[t].err)
    /\ pc' = [pc EXCEPT ![t] = Still]
    /\ UNCHANGED <<treeVars, mtx, readers, frameVars, input>>

NextRace ==
    \/ RaceUpdateBegin
    \/ RaceDrawCells
    \/ RaceRangeStart
    \/ RaceVisit
    \/ RaceRangeEnd
    \/ \E t \in AppThreads : RaceCreate(t)
    \/ \E t \in AppThreads : RaceRemoveLock(t)
    \/ \E t \in AppThreads : RaceRemoveSwap(t)
    \/ \E t \in AppThreads : RaceRemoveNil(t)
    \/ \E t \in AppThreads : RaceRemoveCut(t)
    \/ \E t \in AppThreads : RaceSetPriority(t)
    \/ \E t \in AppThreads : RaceSort(t)
    \/ \E t \in Threads : RaceReturn(t)

SpecRace == InitRace /\ [][NextRace]_vars

\* C21: while an Update or Draw traversal of a console's children runs, no
\* RemoveSubConsole, CreateSubConsole or SetPriority of another thread makes
\* it access an index the child list no longer has or a nil entry, and every
\* child it visits was in the list at some moment of the traversal.
C21_TraversalSeesOnlyMembers ==
    /\ pc[FrameThread].fault = "none"
    /\ \A k \in 1..Len(pc[FrameThread].visited) :
          pc[FrameThread].visited[k] \in pc[FrameThread].members

\* The part of C21 the code keeps: an Update traversal, which runs under the
\* root's read lock, never fails on the root's child list.
C21_UpdateTraversalOfRootIsSafe ==
    pc[FrameThread].op = "Update" => pc[FrameThread].fault = "none"

=============================================================================
